---------------------------- MODULE Spec2Model ----------------------------
(***************************************************************************)
(* NovaMed conversational booking engine.                                  *)
(*                                                                         *)
(* Two implementations of the same WhatsApp webhook live in the            *)
(* repository: backend/webhook.js ("backend") and the Firebase function    *)
(* of src/unnamed/part_000 ("functions").  A deployment runs one of them;  *)
(* the variable `variant` is fixed by Init and every handler step follows  *)
(* the code of that variant.                                               *)
(*                                                                         *)
(* Firestore is modelled as maps from document id to document.  A          *)
(* transaction (db.runTransaction) reads documents, and commits all its    *)
(* writes atomically if no document it read has changed since; otherwise   *)
(* the transaction function runs again, up to MaxAttempts times, and then  *)
(* runTransaction rejects.  An error thrown by the transaction function    *)
(* itself aborts the transaction without retry.                            *)
(*                                                                         *)
(* The outbound send (fetch to the Graph API) is awaited by the handlers   *)
(* and is not wrapped in a try/catch of its own: it either succeeds or     *)
(* throws into the caller.                                                 *)
(***************************************************************************)
EXTENDS Integers, Sequences, FiniteSets, TLC

VARIABLES
    variant,              \* which webhook implementation is deployed
    now,                  \* Date.now(), in minutes
    registration_states,  \* collection registration_states: sender -> session
    appointments,         \* collection appointments: slot id -> ledger entry
    counters,             \* the counter documents: path -> [count]
    patients,             \* collection patients: patient id -> record
    task,                 \* one record per running handler / reservation attempt
    issued,               \* history: identifiers in the order the counter issued them
    returned,             \* history: identifiers returned by attemptRegistration
    lastMsg,              \* history: per sender, the latest inbound message
    outbox,               \* the send calls of the latest step, each with its outcome
    handshake             \* the verification request of the latest step and its answer

vars == <<variant, now, registration_states, appointments, counters,
          patients, task, issued, returned, lastMsg, outbox, handshake>>

-----------------------------------------------------------------------------
(* Bounds of the model *)

\* number of concurrently running handlers / reservation attempts
NumProcs == 3
\* capacities of the catalog are cut down to this many occupants per slot
MaxCapacity == 2
\* attempts of one runTransaction before it rejects (Firestore default: 5)
MaxAttempts == 2
\* identifiers the message handlers may draw from the counter in one run
MaxIds == 3
\* the clock advances by at most this many minutes and this many idle limits
MaxTicks == 1
\* number of handlers that take messages at the same time
NumHandlers == 2
\* repeated deliveries a sender's messages get in one run
MaxRedeliveries == 1

Procs == 1..NumProcs
Handlers == 1..NumHandlers

-----------------------------------------------------------------------------
(* JavaScript values *)

Undefined == "<undefined>"
Truthy(v) == v # Undefined /\ v # ""

NoFields == <<>>
Has(obj, f) == f \in DOMAIN obj
Get(obj, f) == IF f \in DOMAIN obj THEN obj[f] ELSE Undefined
\* obj.f = v
Put(obj, f, v) == (f :> v) @@ obj
\* a || b
OrElse(a, b) == IF Truthy(a) THEN a ELSE b

Min(a, b) == IF a <= b THEN a ELSE b

-----------------------------------------------------------------------------
(* Strings *)

Char(s, i) == SubSeq(s, i, i)

IsDigit(c) == c \in {"0", "1", "2", "3", "4", "5", "6", "7", "8", "9"}

DigitVal(c) == CHOOSE i \in 0..9 : ToString(i) = c

\* s.indexOf(sub) >= 0
Includes(s, sub) ==
    \E i \in 1..(Len(s) - Len(sub) + 1) : SubSeq(s, i, i + Len(sub) - 1) = sub

\* index of the first occurrence of the one-character string c in s, or 0
IndexOf(s, c) ==
    IF \E i \in 1..Len(s) : Char(s, i) = c
    THEN CHOOSE i \in 1..Len(s) :
            Char(s, i) = c /\ \A j \in 1..(i - 1) : Char(s, j) # c
    ELSE 0

\* parseInt(s, 10) of a string of digits
RECURSIVE ParseDigits(_)
ParseDigits(s) ==
    IF s = "" THEN 0
    ELSE 10 * ParseDigits(SubSeq(s, 1, Len(s) - 1)) + DigitVal(Char(s, Len(s)))

\* n.toString().padStart(2, "0")
PadStart2(n) == IF n < 10 THEN "0" \o ToString(n) ELSE ToString(n)

-----------------------------------------------------------------------------
(* Department catalog *)

CatalogCapacity ==
    [Cardiology |-> 10, Neurology |-> 8, Orthopedics |-> 6, Pediatrics |-> 12,
     General_Medicine |-> 10, Dermatology |-> 15]

\* departmentSlots; every capacity is cut down to MaxCapacity
departmentSlots ==
    ("Cardiology" :> [times |-> <<"09:00", "12:00">>,
                      capacity |-> Min(CatalogCapacity.Cardiology, MaxCapacity)])
    @@ ("Neurology" :> [times |-> <<"14:00", "17:00">>,
                        capacity |-> Min(CatalogCapacity.Neurology, MaxCapacity)])
    @@ ("Orthopedics" :> [times |-> <<"10:00", "13:00">>,
                          capacity |-> Min(CatalogCapacity.Orthopedics, MaxCapacity)])
    @@ ("Pediatrics" :> [times |-> <<"15:00", "18:00">>,
                         capacity |-> Min(CatalogCapacity.Pediatrics, MaxCapacity)])
    @@ ("General Medicine" :> [times |-> <<"09:00", "12:00">>,
                               capacity |-> Min(CatalogCapacity.General_Medicine, MaxCapacity)])
    @@ ("Dermatology" :> [times |-> <<"09:00", "18:00">>,
                          capacity |-> Min(CatalogCapacity.Dermatology, MaxCapacity)])

\* Object.keys(departmentSlots), in insertion order
deptList ==
    <<"Cardiology", "Neurology", "Orthopedics", "Pediatrics",
      "General Medicine", "Dermatology">>

InCatalog(d) == d \in DOMAIN departmentSlots

\* parseInt(hhmm.split(":")[0], 10)
HourOf(hhmm) == ParseDigits(SubSeq(hhmm, 1, IndexOf(hhmm, ":") - 1))

\* hoursBetween(start, end): the hours s..e as "HH:00"
hoursBetween(startHHMM, endHHMM) ==
    LET s == HourOf(startHHMM)
        e == HourOf(endHHMM)
    IN  [i \in 1..(IF e >= s THEN e - s + 1 ELSE 0) |-> PadStart2(s + i - 1) \o ":00"]

SeqIncludes(seq, x) == \E i \in 1..Len(seq) : seq[i] = x


-----------------------------------------------------------------------------
(* Text: the string functions and regular expressions of the handlers *)

UpperLetters == "ABCDEFGHIJKLMNOPQRSTUVWXYZ"
LowerLetters == "abcdefghijklmnopqrstuvwxyz"

IsUpper(c) == Len(c) = 1 /\ Includes(UpperLetters, c)
IsLower(c) == Len(c) = 1 /\ Includes(LowerLetters, c)
IsAlpha(c) == IsUpper(c) \/ IsLower(c)
\* \w
IsWordChar(c) == IsAlpha(c) \/ (Len(c) = 1 /\ IsDigit(c)) \/ c = "_"
\* \s
IsSpace(c) == c = " "

LowerChar(c) == IF IsUpper(c) THEN Char(LowerLetters, IndexOf(UpperLetters, c)) ELSE c

\* s.toLowerCase()
RECURSIVE ToLower(_)
ToLower(s) == IF s = "" THEN "" ELSE LowerChar(Char(s, 1)) \o ToLower(Tail(s))

\* s.trim()
RECURSIVE Trim(_)
Trim(s) ==
    IF s = "" THEN ""
    ELSE IF IsSpace(Char(s, 1)) THEN Trim(Tail(s))
    ELSE IF IsSpace(Char(s, Len(s))) THEN Trim(SubSeq(s, 1, Len(s) - 1))
    ELSE s

\* s with every character outside the class removed
RECURSIVE Keep(_, _)
Keep(s, class) ==
    IF s = "" THEN ""
    ELSE (IF Includes(class, Char(s, 1)) THEN Char(s, 1) ELSE "") \o Keep(Tail(s), class)

\* s.replace(/\s+/g, "")
RECURSIVE DropSpaces(_)
DropSpaces(s) ==
    IF s = "" THEN ""
    ELSE (IF IsSpace(Char(s, 1)) THEN "" ELSE Char(s, 1)) \o DropSpaces(Tail(s))

CharAt(s, i) == IF i >= 1 /\ i <= Len(s) THEN Char(s, i) ELSE ""

\* \b before position i of s
WordBoundary(s, i) == IsWordChar(CharAt(s, i - 1)) # IsWordChar(CharAt(s, i))

\* /\bw\b/ matches s
HasWord(s, w) ==
    \E i \in 1..(Len(s) - Len(w) + 1) :
        /\ SubSeq(s, i, i + Len(w) - 1) = w
        /\ WordBoundary(s, i)
        /\ WordBoundary(s, i + Len(w))

\* the least element of a non-empty set of numbers
Least(S) == CHOOSE x \in S : \A y \in S : x <= y
Greatest(S) == CHOOSE x \in S : \A y \in S : x >= y

\* end of the longest run of characters satisfying the class from position i
\* on (i - 1 when there is none)
RunEnd(s, i, class) ==
    Greatest({i - 1} \cup {e \in i..Len(s) : \A j \in i..e : Includes(class, Char(s, j))})

Digits == "0123456789"

\* /\d{n,}/ matches s
HasDigitRun(s, n) ==
    \E i \in 1..(Len(s) - n + 1) : \A j \in i..(i + n - 1) : IsDigit(Char(s, j))

\* isGreeting of backend/webhook.js
isGreeting(text) ==
    \E w \in {"hi", "hey", "hello", "hii", "hy"} : HasWord(ToLower(text), w)

\* the greeting test of the functions variant (text already trimmed, lower case)
functionsIsGreeting(text) == text = "hi" \/ text = "hello"

\* normalizeGender
normalizeGender(text) ==
    LET t == ToLower(text)
    IN  IF Includes(t, "male") \/ t = "m" THEN "Male"
        ELSE IF Includes(t, "female") \/ t = "f" THEN "Female"
        ELSE IF Includes(t, "other") \/ Includes(t, "prefer not") \/ t = "o" THEN "Other"
        ELSE Undefined

\* validatePhone
validatePhone(text) ==
    LET normalized == Keep(text, Digits \o "+")
    IN  IF HasDigitRun(normalized, 10) THEN normalized ELSE Undefined

\* /\S+@\S+\.\S+/ matches text
EmailShape(text) ==
    \E a \in 2..Len(text) : \E d \in (a + 2)..(Len(text) - 1) :
        /\ Char(text, a) = "@"
        /\ Char(text, d) = "."
        /\ ~IsSpace(Char(text, a - 1))
        /\ \A j \in (a + 1)..(d - 1) : ~IsSpace(Char(text, j))
        /\ ~IsSpace(Char(text, d + 1))

\* validateEmail
validateEmail(text) == IF EmailShape(text) THEN text ELSE Undefined

\* normalizeDepartment: the first catalog name the text contains
normalizeDepartment(text) ==
    IF text = "" \/ text = Undefined THEN Undefined
    ELSE LET input == ToLower(text)
             hits == {i \in 1..Len(deptList) : Includes(input, ToLower(deptList[i]))}
         IN  IF hits = {} THEN Undefined ELSE deptList[Least(hits)]

\* parseChoice: /\b([1-9][0-9]?)\b/, 0 standing for null
parseChoice(text) ==
    LET starts == {i \in 1..Len(text) :
                      /\ WordBoundary(text, i)
                      /\ IsDigit(Char(text, i)) /\ Char(text, i) # "0"
                      /\ \/ (IsDigit(CharAt(text, i + 1)) /\ WordBoundary(text, i + 2))
                         \/ WordBoundary(text, i + 1)}
    IN  IF starts = {} THEN 0
        ELSE LET i == Least(starts)
             IN  IF IsDigit(CharAt(text, i + 1)) /\ WordBoundary(text, i + 2)
                 THEN ParseDigits(SubSeq(text, i, i + 1))
                 ELSE ParseDigits(Char(text, i))

\* end of [A-Z][a-z]+ at position i (0 when it does not match); with the i
\* flag both classes hold the letters of either case
NameWordEnd(s, i, anyCase) ==
    LET first == IF anyCase THEN UpperLetters \o LowerLetters ELSE UpperLetters
        rest == IF anyCase THEN UpperLetters \o LowerLetters ELSE LowerLetters
        e == RunEnd(s, i + 1, rest)
    IN  IF i <= Len(s) /\ Includes(first, Char(s, i)) /\ e >= i + 1 THEN e ELSE 0

\* the ends at which [A-Z][a-z]+(?:\s[A-Z][a-z]+)* can stop when started at i
RECURSIVE NameEnds(_, _, _)
NameEnds(s, i, anyCase) ==
    LET e == NameWordEnd(s, i, anyCase)
    IN  IF e = 0 THEN {}
        ELSE {e} \cup (IF IsSpace(CharAt(s, e + 1)) THEN NameEnds(s, e + 2, anyCase) ELSE {})

\* m[1] of /\bprefix ([A-Z][a-z]+(?:\s[A-Z][a-z]+)*)/i, or Undefined
NameAfter(text, prefix) ==
    LET low == ToLower(text)
        starts == {i \in 1..(Len(text) - Len(prefix) + 1) :
                      /\ SubSeq(low, i, i + Len(prefix) - 1) = prefix
                      /\ WordBoundary(text, i)
                      /\ NameEnds(text, i + Len(prefix), TRUE) # {}}
    IN  IF starts = {} THEN Undefined
        ELSE LET i == Least(starts) + Len(prefix)
             IN  SubSeq(text, i, Greatest(NameEnds(text, i, TRUE)))

\* m[1] of /\b([A-Z][a-z]+(?:\s[A-Z][a-z]+)*)\b/, or Undefined
CapitalisedName(text) ==
    LET ends(i) == {e \in NameEnds(text, i, FALSE) : WordBoundary(text, e + 1)}
        starts == {i \in 1..Len(text) : WordBoundary(text, i) /\ ends(i) # {}}
    IN  IF starts = {} THEN Undefined
        ELSE LET i == Least(starts) IN SubSeq(text, i, Greatest(ends(i)))

\* extractNameFromSentence
extractNameFromSentence(text) ==
    IF NameAfter(text, "my name is ") # Undefined THEN Trim(NameAfter(text, "my name is "))
    ELSE IF NameAfter(text, "i am ") # Undefined THEN Trim(NameAfter(text, "i am "))
    ELSE CapitalisedName(text)

\* extractPhone: m[1] of /(\+?\d[\d\-\s]{8,}\d)/ passed to validatePhone
extractPhone(text) ==
    LET lastDigit(i) ==
            \* i: position of the first digit; the match ends at the last digit
            \* of the run of digits, dashes and spaces that follows it
            LET r == RunEnd(text, i + 1, Digits \o "- ")
                ends == {e \in (i + 9)..r : IsDigit(Char(text, e))}
            IN  IF ends = {} THEN 0 ELSE Greatest(ends)
        starts == {i \in 1..Len(text) :
                      \/ (IsDigit(Char(text, i)) /\ lastDigit(i) # 0)
                      \/ (Char(text, i) = "+" /\ IsDigit(CharAt(text, i + 1))
                            /\ lastDigit(i + 1) # 0)}
    IN  IF starts = {} THEN Undefined
        ELSE LET i == Least(starts)
                 d == IF Char(text, i) = "+" THEN i + 1 ELSE i
             IN  validatePhone(SubSeq(text, i, lastDigit(d)))

LocalChars == UpperLetters \o LowerLetters \o Digits \o "._%+-"
DomainChars == UpperLetters \o LowerLetters \o Digits \o ".-"

\* extractEmail: m[1] of /([a-zA-Z0-9._%+-]+@[a-zA-Z0-9.-]+\.[a-zA-Z]{2,})/
extractEmail(text) ==
    LET dots(a) ==
            \* the dots after the @ at a that can start the final \.[a-zA-Z]{2,}
            {d \in (a + 2)..RunEnd(text, a + 1, DomainChars) :
                /\ Char(text, d) = "."
                /\ RunEnd(text, d + 1, UpperLetters \o LowerLetters) >= d + 2}
        ats == {a \in 2..Len(text) :
                   /\ Char(text, a) = "@"
                   /\ Includes(LocalChars, Char(text, a - 1))
                   /\ dots(a) # {}}
    IN  IF ats = {} THEN Undefined
        ELSE LET a == Least(ats)
                 start == Least({i \in 1..(a - 1) :
                              \A j \in i..(a - 1) : Includes(LocalChars, Char(text, j))})
                 d == Greatest(dots(a))
             IN  SubSeq(text, start, RunEnd(text, d + 1, UpperLetters \o LowerLetters))

-----------------------------------------------------------------------------
(* Dates, and the chrono-node parser as far as the handlers use it.  The
   server clock is UTC, so toISOString and toTimeString agree on the day. *)

\* minutes after which an untouched session is stale
IdleLimit == 30
MinutesPerDay == 1440

\* the days around the start of the run, as toISOString().split("T")[0]
\* gives them; the run starts on the second one
Calendar == <<"2025-11-30", "2025-12-01", "2025-12-02", "2025-12-03">>
DayIndex(dateStr) == CHOOSE i \in 1..Len(Calendar) : Calendar[i] = dateStr
TodayIndex == 2 + (now \div MinutesPerDay)
\* new Date().toISOString().split("T")[0]
today == Calendar[TodayIndex]

\* the casual day word of a text, "" for none
casualWord(text) ==
    LET low == ToLower(text)
    IN  IF HasWord(low, "tomorrow") THEN "tomorrow"
        ELSE IF HasWord(low, "today") THEN "today"
        ELSE IF HasWord(low, "yesterday") THEN "yesterday"
        ELSE ""

\* the day a text writes out as a date, as its place in Calendar, 0 for none
writtenDay(text) ==
    LET written == {i \in 1..Len(Calendar) : Includes(text, Calendar[i])}
    IN  IF written = {} THEN 0 ELSE Least(written)

\* "am" or "pm" at position j of s, followed by a word boundary
MeridiemAt(s, j) ==
    /\ j >= 1 /\ j + 1 <= Len(s)
    /\ SubSeq(s, j, j + 1) \in {"am", "pm"}
    /\ WordBoundary(s, j + 2)

\* the clock time written at position i of a lower-case text, as H:MM,
\* HH:MM, H am or H pm; "" for none
ClockAt(s, i) ==
    LET n == IF IsDigit(CharAt(s, i + 1)) THEN 2 ELSE 1
        hour == ParseDigits(SubSeq(s, i, i + n - 1))
        c == i + n
        m == IF IsSpace(CharAt(s, c)) THEN c + 1 ELSE c
    IN  IF ~(WordBoundary(s, i) /\ IsDigit(CharAt(s, i))) THEN ""
        ELSE IF /\ CharAt(s, c) = ":"
                /\ IsDigit(CharAt(s, c + 1)) /\ IsDigit(CharAt(s, c + 2))
                /\ WordBoundary(s, c + 3)
                /\ hour <= 23
                /\ ParseDigits(SubSeq(s, c + 1, c + 2)) <= 59
             THEN PadStart2(hour) \o ":" \o SubSeq(s, c + 1, c + 2)
        ELSE IF MeridiemAt(s, m) /\ hour >= 1 /\ hour <= 12
             THEN PadStart2((hour % 12) + (IF SubSeq(s, m, m + 1) = "pm" THEN 12 ELSE 0))
                    \o ":00"
        ELSE ""

\* the first clock time a text names, "" for none
chronoTime(text) ==
    LET low == ToLower(text)
        starts == {i \in 1..Len(low) : ClockAt(low, i) # ""}
    IN  IF starts = {} THEN "" ELSE ClockAt(low, Least(starts))

\* the day a message names, given what was read from its text (r): a casual
\* word counts from the current day, a written date stands for itself
chronoDay(r) ==
    IF r.casualWord = "tomorrow" THEN TodayIndex + 1
    ELSE IF r.casualWord = "today" THEN TodayIndex
    ELSE IF r.casualWord = "yesterday" THEN TodayIndex - 1
    ELSE r.writtenDay

\* chrono.parse(text)[0].start: the day and the time of day of the first
\* result (the current day when only a time is named, 12:00 when only a day)
chronoParse(r) ==
    [found |-> chronoDay(r) # 0 \/ r.chronoTime # "",
     day |-> IF chronoDay(r) # 0 THEN chronoDay(r) ELSE TodayIndex,
     time |-> IF r.chronoTime # "" THEN r.chronoTime ELSE "12:00"]

\* p.start.isOnlyDate === false: isOnlyDate is a method of chrono's
\* components (absent in chrono 1), never the value false
isOnlyDateIsFalse(p) == FALSE

\* extractDateTime of backend/webhook.js
extractDateTime(r) ==
    LET p == chronoParse(r)
    IN  IF ~p.found THEN [date |-> Undefined, time |-> Undefined]
        ELSE [date |-> Calendar[p.day],
              time |-> IF isOnlyDateIsFalse(p) THEN p.time ELSE Undefined]

\* parseFutureDate of the functions variant
parseFutureDate(r) ==
    LET p == chronoParse(r)
    IN  IF p.found /\ p.day > TodayIndex THEN Calendar[p.day] ELSE Undefined

MinuteOf(hhmm) == ParseDigits(SubSeq(hhmm, IndexOf(hhmm, ":") + 1, Len(hhmm)))

\* generateTimeSlots of the functions variant: hourly from start up to end
generateTimeSlots(start, end) ==
    LET s == HourOf(start) * 60 + MinuteOf(start)
        e == HourOf(end) * 60 + MinuteOf(end)
        n == IF e >= s THEN ((e - s) \div 60) + 1 ELSE 0
    IN  [i \in 1..n |-> PadStart2(HourOf(start) + i - 1) \o ":"
                          \o PadStart2(MinuteOf(start))]

\* the alias table of normalizeTimeForDepartment
timeAlias ==
    ("9" :> "09:00") @@ ("9 am" :> "09:00") @@ ("09:00" :> "09:00")
    @@ ("10" :> "10:00") @@ ("10 am" :> "10:00") @@ ("10:00" :> "10:00")
    @@ ("11" :> "11:00") @@ ("11 am" :> "11:00") @@ ("11:00" :> "11:00")
    @@ ("12" :> "12:00") @@ ("12 pm" :> "12:00") @@ ("12:00" :> "12:00")
    @@ ("1" :> "13:00") @@ ("1 pm" :> "13:00") @@ ("13:00" :> "13:00")
    @@ ("2" :> "14:00") @@ ("2 pm" :> "14:00") @@ ("14:00" :> "14:00")
    @@ ("3" :> "15:00") @@ ("3 pm" :> "15:00") @@ ("15:00" :> "15:00")
    @@ ("5" :> "17:00") @@ ("5 pm" :> "17:00") @@ ("17:00" :> "17:00")
    @@ ("6" :> "18:00") @@ ("6 pm" :> "18:00") @@ ("18:00" :> "18:00")

\* the slots of each department, as generateTimeSlots lists them
timeSlots ==
    [d \in DOMAIN departmentSlots |->
        generateTimeSlots(departmentSlots[d].times[1], departmentSlots[d].times[2])]

\* normalizeTimeForDepartment
normalizeTimeForDepartment(department, text) ==
    LET times == timeSlots[department]
        key == ToLower(Trim(text))
        normalized == IF key \in DOMAIN timeAlias THEN timeAlias[key] ELSE key
    IN  IF SeqIncludes(times, normalized) THEN normalized ELSE Undefined

\* length of the match of [0-2]?\d:[0-5]\d|\d{1,2}\s?(am|pm) at position i
\* of s with \b on both sides, 0 for none
TimeMatchLen(s, i) ==
    LET n == IF IsDigit(CharAt(s, i + 1)) THEN 2 ELSE 1
        c == i + n
        m == IF IsSpace(CharAt(s, c)) THEN c + 1 ELSE c
    IN  IF ~(WordBoundary(s, i) /\ IsDigit(CharAt(s, i))) THEN 0
        ELSE IF /\ n = 1 \/ CharAt(s, i) \in {"0", "1", "2"}
                /\ CharAt(s, c) = ":"
                /\ CharAt(s, c + 1) \in {"0", "1", "2", "3", "4", "5"}
                /\ IsDigit(CharAt(s, c + 2))
                /\ WordBoundary(s, c + 3)
             THEN n + 3
        ELSE IF MeridiemAt(s, m) THEN m + 2 - i
        ELSE 0

\* lower.match(/\b([0-2]?\d:[0-5]\d|\d{1,2}\s?(am|pm))\b/)[0], "" for null
timeMatch(lower) ==
    LET starts == {i \in 1..Len(lower) : TimeMatchLen(lower, i) > 0}
    IN  IF starts = {} THEN ""
        ELSE SubSeq(lower, Least(starts),
                    Least(starts) + TimeMatchLen(lower, Least(starts)) - 1)

\* the gender keyword test of parseFullSentence
sentenceGender(lower) ==
    IF Includes(lower, "male") THEN "Male"
    ELSE IF Includes(lower, "female") THEN "Female"
    ELSE IF Includes(lower, "other") THEN "Other"
    ELSE Undefined

\* parseFullSentence of the functions variant, given what was read from the
\* text (r)
parseFullSentence(r) ==
    LET p == chronoParse(r)
        department == r.normalizeDepartment
    IN  [department |-> department,
         date |-> parseFutureDate(r),
         time |-> IF p.found THEN p.time
                  ELSE IF department # Undefined /\ r.timeMatch # ""
                       THEN normalizeTimeForDepartment(department, r.timeMatch)
                  ELSE Undefined,
         gender |-> r.sentenceGender]

-----------------------------------------------------------------------------
(* The messages senders write, and what the text functions read from them.
   The functions read only the text, so each is applied once to each text. *)

Senders == {"919800000001"}

StepNames ==
    <<"firstName", "lastName", "gender", "address", "email", "phoneNumber",
      "department", "registrationDate", "registrationTime">>

\* the messages a sender writes, by the step the conversation is at
Utterances(step) ==
    IF step = "none"
    THEN {"hi", "patient registration", "book cardiology tomorrow at 10:00",
          "book cardiology today",
          "book cardiology tomorrow at 10:00 phone 9876543210"}
    ELSE IF step = "firstName" THEN {"Asha"}
    ELSE IF step = "lastName" THEN {"-"}
    ELSE IF step = "gender" THEN {"2", "xx"}
    ELSE IF step = "address" THEN {"12 Park Road"}
    ELSE IF step = "email" THEN {"a@b.co", "nope"}
    ELSE IF step = "phoneNumber" THEN {"9876543210", "12345"}
    ELSE IF step = "department" THEN {"cardiology", "dental"}
    ELSE IF step = "registrationDate" THEN {"tomorrow", "today"}
    ELSE IF step = "registrationTime" THEN {"10:00", "25:00"}
    ELSE {"hi"}

\* the messages a sender writes to a conversation that is taken one answer
\* at a time: first messages with some details, answers of the gender step
\* and answers of the registrationTime step
AnswerTexts(step) ==
    IF step = "none"
    THEN {"My name is Asha Rao", "book cardiology", "i am female",
          "book cardiology tomorrow at 10:00, female", "hi", "hey"}
    ELSE IF step = "gender"
    THEN {"1", "2", "3", "male", "female", "other", "xx", "hi", "hey"}
    ELSE IF step = "email"
    THEN {"skip", "Skip", "a@b.co", "nope"}
    ELSE IF step = "registrationTime"
    THEN {"1", "2", "4", "9:00", "10:00", "15:00", "25:00", "later", "hi", "hey"}
    ELSE IF \E i \in 1..Len(StepNames) : StepNames[i] = step THEN {}
    \* a session whose step is none of the known ones
    ELSE {"hi", "10:00", "patient registration"}

Bodies ==
    UNION {Utterances(step) \cup AnswerTexts(step) :
             step \in {"none"} \cup {StepNames[i] : i \in 1..Len(StepNames)}}

\* candidateTime of the registrationTime step before chrono sees it:
\* /^\d{1,2}$/ gives padStart(2, "0") + ":00"
paddedTime(trimmed) ==
    IF Len(trimmed) \in {1, 2} /\ \A i \in 1..Len(trimmed) : IsDigit(Char(trimmed, i))
    THEN (IF Len(trimmed) = 1 THEN "0" \o trimmed ELSE trimmed) \o ":00"
    ELSE trimmed

\* what the text functions return for one text
reading(text) ==
    [text |-> text,
     isGreeting |-> isGreeting(text),
     extractPhone |-> extractPhone(text),
     extractEmail |-> extractEmail(text),
     extractNameFromSentence |-> extractNameFromSentence(text),
     normalizeDepartment |-> normalizeDepartment(text),
     normalizeGender |-> normalizeGender(text),
     parseChoice |-> parseChoice(text),
     validateEmail |-> validateEmail(text),
     validatePhone |-> validatePhone(text),
     EmailShape |-> EmailShape(text),
     DropSpaces |-> DropSpaces(text),
     casualWord |-> casualWord(text),
     writtenDay |-> writtenDay(text),
     chronoTime |-> chronoTime(text),
     timeMatch |-> timeMatch(text),
     sentenceGender |-> sentenceGender(text)]

\* the readings of a message body: of the body as it arrived (raw), trimmed,
\* trimmed and in lower case, and as the time candidate
read ==
    [body \in Bodies |->
        [raw |-> reading(body),
         trimmed |-> reading(Trim(body)),
         lowered |-> reading(ToLower(Trim(body))),
         padded |-> reading(paddedTime(Trim(body)))]]

-----------------------------------------------------------------------------
(* Firestore documents and snapshots *)

Missing == [exists |-> FALSE]
\* (await ref.get()) / (await tx.get(ref))
Snap(coll, id) ==
    IF id \in DOMAIN coll THEN [exists |-> TRUE, data |-> coll[id]] ELSE Missing

\* ref.set(fields, { merge: true })
MergeSet(coll, id, fields) ==
    Put(coll, id, IF id \in DOMAIN coll THEN fields @@ coll[id] ELSE fields)

\* ref.delete()
Delete(coll, id) == [k \in DOMAIN coll \ {id} |-> coll[k]]

\* the counter document generatePatientId uses
CounterPath ==
    IF variant = "backend" THEN "metadata/patient_counter" ELSE "counters/patients"

-----------------------------------------------------------------------------
(* Patient identifiers *)

\* the numbers NaN and undefined, which a counter document without the field
\* count puts in the place of a count
NaN == -1
UndefinedCount == -2

\* current + 1
PlusOne(count) == IF count \in {NaN, UndefinedCount} THEN NaN ELSE count + 1

\* `P${count}`
formatPatientId(count) ==
    "P" \o (IF count = NaN THEN "NaN"
            ELSE IF count = UndefinedCount THEN "undefined"
            ELSE ToString(count))

\* the digits after the prefix, as a number
NumericPart(id) == ParseDigits(SubSeq(id, 2, Len(id)))

\* generatePatientId without the increment
backendNextCount_NoIncrement(snap) ==
    IF snap.exists THEN snap.data.count ELSE 1001

\* backend generatePatientId: the count it stores and formats
backendNextCount(snap) ==
    IF snap.exists
    THEN (IF Has(snap.data, "count") /\ snap.data.count # 0
          THEN snap.data.count ELSE 1000) + 1
    ELSE 1001

\* functions generatePatientId: the count it formats (and stores plus one)
functionsCurrent(snap) ==
    IF snap.exists
    THEN (IF Has(snap.data, "count") THEN snap.data.count ELSE UndefinedCount)
    ELSE 1000

-----------------------------------------------------------------------------
(* attemptRegistration *)

ErrDeptMissing == "Department missing."
ErrInvalidDept == "Invalid department."
ErrTimeNotAllowed == "Selected time not allowed for the department."
\* what runTransaction rejects with once its attempts are used up
ErrAborted == "ABORTED"

\* `${department}_${registrationDate}_${registrationTime}`
slotIdOf(data) ==
    Get(data, "department") \o "_" \o Get(data, "registrationDate")
        \o "_" \o Get(data, "registrationTime")

\* the checks attemptRegistration makes before any transaction: "" or the error
backendPrecheck(data) ==
    IF ~Truthy(Get(data, "department")) THEN ErrDeptMissing
    ELSE IF ~InCatalog(data.department) THEN ErrInvalidDept
    ELSE LET dept == departmentSlots[data.department]
             validTimes == hoursBetween(dept.times[1], dept.times[2])
         IN  IF ~SeqIncludes(validTimes, Get(data, "registrationTime"))
             THEN ErrTimeNotAllowed ELSE ""

\* the department check of the functions variant left out
functionsPrecheck_NoCheck(data) == ""

functionsPrecheck(data) ==
    IF ~InCatalog(Get(data, "department")) THEN ErrInvalidDept ELSE ""

\* slotSnap.exists ? (slotSnap.data().count || 0) : 0
currentCountOf(slotSnap) ==
    IF slotSnap.exists /\ Has(slotSnap.data, "count")
    THEN slotSnap.data.count ELSE 0

\* the capacity check with > in place of >=
SlotIsFull_OffByOne(currentCount, capacity) == currentCount > capacity

\* currentCount >= dept.capacity
SlotIsFull(currentCount, capacity) == currentCount >= capacity

backendSlotFullError(data) == "Slot full"
functionsSlotFullError(data) ==
    "Slot full for " \o data.department \o " at " \o data.registrationTime
        \o " on " \o data.registrationDate \o "."

IsSlotFullError(err) == Includes(err, "Slot full")

\* the occupant list replaced by the new identifier instead of extended
newPatientsOf_Replace(slotSnap, patientId) == <<patientId>>

\* the new identifier put in front of the occupant list
newPatientsOf_Prepend(slotSnap, patientId) ==
    IF slotSnap.exists
    THEN <<patientId>> \o (IF Has(slotSnap.data, "patients")
                           THEN slotSnap.data.patients ELSE <<>>)
    ELSE <<patientId>>

\* slotSnap.exists ? [...(slotSnap.data().patients || []), patientId] : [patientId]
newPatientsOf(slotSnap, patientId) ==
    IF slotSnap.exists
    THEN Append(IF Has(slotSnap.data, "patients") THEN slotSnap.data.patients ELSE <<>>,
                patientId)
    ELSE <<patientId>>

\* the fields attemptRegistration writes to the slot document
slotFields(data, slotSnap, patientId) ==
    [department |-> data.department,
     date |-> data.registrationDate,
     time |-> data.registrationTime,
     capacity |-> departmentSlots[data.department].capacity,
     count |-> currentCountOf(slotSnap) + 1,
     patients |-> newPatientsOf(slotSnap, patientId)]

\* the patient document of backend/webhook.js
backendPatientDoc(data, patientId, t) ==
    [PatientID |-> patientId,
     FirstName |-> OrElse(Get(data, "firstName"), ""),
     LastName |-> OrElse(Get(data, "lastName"), ""),
     Gender |-> OrElse(Get(data, "gender"), ""),
     Address |-> OrElse(Get(data, "address"), ""),
     Email |-> OrElse(Get(data, "email"), ""),
     PhoneNumber |-> OrElse(Get(data, "phoneNumber"), ""),
     department |-> data.department,
     RegistrationDate |-> data.registrationDate,
     RegistrationTime |-> data.registrationTime,
     createdAt |-> t]

\* the patient document without the fields the quick booking leaves unknown
functionsPatientDoc_OmitsUnknown(data, patientId, t) ==
    LET known == {f \in DOMAIN data : data[f] # "Unknown"}
    IN  [f \in known |-> data[f]]
        @@ [patientId |-> patientId, createdAt |-> t]

\* the patient document of the functions variant
functionsPatientDoc(data, patientId, t) ==
    [patientId |-> patientId,
     firstName |-> Get(data, "firstName"),
     lastName |-> Get(data, "lastName"),
     gender |-> Get(data, "gender"),
     address |-> Get(data, "address"),
     email |-> Get(data, "email"),
     phoneNumber |-> Get(data, "phoneNumber"),
     department |-> data.department,
     registrationDate |-> data.registrationDate,
     registrationTime |-> data.registrationTime,
     createdAt |-> t]

\* department, date and time of a patient document, whichever variant wrote it
PatientDept(r) == r.department
PatientDate(r) == IF Has(r, "RegistrationDate") THEN r.RegistrationDate ELSE r.registrationDate
PatientTime(r) == IF Has(r, "RegistrationTime") THEN r.RegistrationTime ELSE r.registrationTime
PatientPhone(r) == IF Has(r, "PhoneNumber") THEN r.PhoneNumber ELSE r.phoneNumber


-----------------------------------------------------------------------------
(* Tasks: one per running webhook handler or reservation attempt *)

EmptyState == [step |-> Undefined, data |-> NoFields]

IdleTask ==
    [pc |-> "idle",           \* where the task stands
     caller |-> "none",       \* who called attemptRegistration
     sender |-> "",           \* message.from
     text |-> "",             \* the message text
     current |-> FALSE,       \* history: the message is the sender's latest one
     state |-> EmptyState,    \* what getState returned, as changed by the handler
     data |-> NoFields,       \* the argument of attemptRegistration
     slotSnap |-> Missing,    \* tx.get(slotRef)
     counterSnap |-> Missing, \* tx.get(counterRef)
     attempt |-> 0,           \* attempts of the running transaction
     patientId |-> Undefined, \* the identifier generated for this attempt
     err |-> "",              \* the error attemptRegistration threw, or ""
     writes |-> 0]            \* history: store writes made by this attempt

Range(f) == {f[x] : x \in DOMAIN f}

\* no outbound message
NoMessages == <<>>

\* the step was not a verification request
NoHandshake == <<>>

\* sendWhatsAppMessage(to, text) / sendWhatsAppText / sendButtons went through;
\* the text is named by what it asks for
Message(to, kind) == <<[to |-> to, kind |-> kind, ok |-> TRUE]>>

\* the same call when fetch rejects: nothing reaches the sender and the call
\* throws into the handler
Lost(to, kind) == <<[to |-> to, kind |-> kind, ok |-> FALSE]>>

\* one call of a send function
Send(to, kind, sent) == IF sent THEN Message(to, kind) ELSE Lost(to, kind)

\* sendButtons(to, bodyText, options): one reply button for each option, with
\* the option as its title
sendButtons(to, kind, options, sent) ==
    <<[to |-> to, kind |-> kind, ok |-> sent,
       buttons |-> [i \in 1..Len(options) |-> [title |-> options[i]]]]>>

TaskIs(p, pcs) == task[p].pc \in pcs

\* a handler takes a message only while the identifiers issued plus the
\* handlers that may still draw one stay below MaxIds
StartAllowed ==
    Len(issued)
        + Cardinality({p \in Procs : task[p].pc \notin {"idle", "attemptDone"}
                                        /\ task[p].writes = 0}) < MaxIds

\* attemptRegistration(data) up to its first await: the task after the checks
BeginAttempt(t, caller, data) ==
    LET e == IF variant = "backend" THEN backendPrecheck(data)
             ELSE functionsPrecheck(data)
    IN  [t EXCEPT !.caller = caller, !.data = data, !.attempt = 1,
                  !.slotSnap = Missing, !.counterSnap = Missing,
                  !.patientId = Undefined, !.writes = 0,
                  !.err = e,
                  !.pc = IF e # "" THEN "attemptDone"
                         ELSE IF variant = "backend" THEN "txGetSlot"
                         ELSE "idGet"]

\* the transaction lost to a concurrent commit: run again, or give up
Retry(t, pcAgain) ==
    IF t.attempt < MaxAttempts
    THEN [t EXCEPT !.attempt = t.attempt + 1, !.pc = pcAgain]
    ELSE [t EXCEPT !.err = ErrAborted, !.pc = "attemptDone"]

\* functions generatePatientId: const snap = await tx.get(counterRef)
IdGet(p) ==
    /\ TaskIs(p, {"idGet"})
    /\ task' = [task EXCEPT ![p].counterSnap = Snap(counters, CounterPath),
                            ![p].pc = "idCommit"]
    /\ UNCHANGED <<variant, now, registration_states, appointments, counters,
                   patients, issued, returned, lastMsg>>
    /\ outbox' = NoMessages
    /\ handshake' = NoHandshake

\* functions generatePatientId: the counter transaction commits or is retried
IdCommit(p) ==
    /\ TaskIs(p, {"idCommit"})
    /\ LET t == task[p]
           current == functionsCurrent(t.counterSnap)
           newId == formatPatientId(current)
       IN  IF Snap(counters, CounterPath) = t.counterSnap
           THEN /\ counters' = Put(counters, CounterPath, [count |-> PlusOne(current)])
                /\ issued' = Append(issued, newId)
                /\ task' = [task EXCEPT ![p].patientId = newId,
                                        ![p].writes = t.writes + 1,
                                        ![p].attempt = 1,
                                        ![p].pc = "txGetSlot"]
           ELSE /\ task' = [task EXCEPT ![p] = Retry(t, "idGet")]
                /\ UNCHANGED <<counters, issued>>
    /\ UNCHANGED <<variant, now, registration_states, appointments, patients,
                   returned, lastMsg>>
    /\ outbox' = NoMessages
    /\ handshake' = NoHandshake

\* const slotSnap = await tx.get(slotRef); the capacity check
TxGetSlot(p) ==
    /\ TaskIs(p, {"txGetSlot"})
    /\ LET t == task[p]
           snap == Snap(appointments, slotIdOf(t.data))
           capacity == departmentSlots[t.data.department].capacity
       IN  task' = [task EXCEPT ![p] =
              IF SlotIsFull(currentCountOf(snap), capacity)
              THEN [t EXCEPT !.slotSnap = snap, !.pc = "attemptDone",
                             !.err = IF variant = "backend"
                                     THEN backendSlotFullError(t.data)
                                     ELSE functionsSlotFullError(t.data)]
              ELSE [t EXCEPT !.slotSnap = snap,
                             !.pc = IF variant = "backend" THEN "txGetCounter"
                                    ELSE "txCommit"]]
    /\ UNCHANGED <<variant, now, registration_states, appointments, counters,
                   patients, issued, returned, lastMsg>>
    /\ outbox' = NoMessages
    /\ handshake' = NoHandshake

\* backend: patientId = await generatePatientId(tx), inside the slot transaction
TxGetCounter(p) ==
    /\ TaskIs(p, {"txGetCounter"})
    /\ LET snap == Snap(counters, CounterPath)
       IN  task' = [task EXCEPT ![p].counterSnap = snap,
                                ![p].patientId = formatPatientId(backendNextCount(snap)),
                                ![p].pc = "txCommit"]
    /\ UNCHANGED <<variant, now, registration_states, appointments, counters,
                   patients, issued, returned, lastMsg>>
    /\ outbox' = NoMessages
    /\ handshake' = NoHandshake

\* the documents the slot transaction read are as it read them
TxReadsValid(t) ==
    /\ Snap(appointments, slotIdOf(t.data)) = t.slotSnap
    /\ variant = "backend" => Snap(counters, CounterPath) = t.counterSnap

\* the patient document the slot transaction writes
patientDocOf(t) ==
    IF variant = "backend" THEN backendPatientDoc(t.data, t.patientId, now)
    ELSE functionsPatientDoc(t.data, t.patientId, now)

\* the slot transaction commits its writes together, or is retried
TxCommit(p) ==
    /\ TaskIs(p, {"txCommit"})
    /\ LET t == task[p]
       IN  IF TxReadsValid(t)
           THEN /\ patients' = Put(patients, t.patientId, patientDocOf(t))
                /\ appointments' = MergeSet(appointments, slotIdOf(t.data),
                                            slotFields(t.data, t.slotSnap, t.patientId))
                /\ IF variant = "backend"
                   THEN /\ counters' = MergeSet(counters, CounterPath,
                                [count |-> backendNextCount(t.counterSnap)])
                        /\ issued' = Append(issued, t.patientId)
                   ELSE UNCHANGED <<counters, issued>>
                /\ returned' = Append(returned, t.patientId)
                /\ lastMsg' = IF t.current
                              THEN [lastMsg EXCEPT ![t.sender].booked = @ + 1]
                              ELSE lastMsg
                /\ task' = [task EXCEPT ![p].writes = t.writes + 1,
                                        ![p].pc = "attemptDone"]
           ELSE /\ task' = [task EXCEPT ![p] = Retry(t, "txGetSlot")]
                /\ UNCHANGED <<patients, appointments, counters, issued, returned,
                               lastMsg>>
    /\ UNCHANGED <<variant, now, registration_states>>
    /\ outbox' = NoMessages
    /\ handshake' = NoHandshake

-----------------------------------------------------------------------------
(* Reservation attempts called directly, with any arguments *)

TxDepartments == {"Cardiology", "Orthopedics", "Oncology", Undefined}
TxDates == {"2025-12-01"}
TxTimes == {"10:00", "13:00"}

TxData ==
    {("department" :> d) @@ ("registrationDate" :> dt) @@ ("registrationTime" :> tm)
        @@ ("firstName" :> "Asha") @@ ("lastName" :> "Rao") @@ ("gender" :> "Female")
        @@ ("address" :> "12 Park Road") @@ ("email" :> "") @@ ("phoneNumber" :> "9876543210")
     : d \in TxDepartments, dt \in TxDates, tm \in TxTimes}

\* a caller invokes attemptRegistration(data)
Call(p) ==
    /\ TaskIs(p, {"idle"})
    /\ \E data \in TxData :
          task' = [task EXCEPT ![p] = BeginAttempt(IdleTask, "direct", data)]
    /\ UNCHANGED <<variant, now, registration_states, appointments, counters,
                   patients, issued, returned, lastMsg>>
    /\ outbox' = NoMessages
    /\ handshake' = NoHandshake

InitStore ==
    /\ variant \in {"backend", "functions"}
    /\ now = 0
    /\ registration_states = <<>>
    /\ appointments = <<>>
    /\ counters = <<>>
    /\ patients = <<>>
    /\ task = [p \in Procs |-> IdleTask]
    /\ issued = <<>>
    /\ returned = <<>>
    /\ lastMsg = <<>>
    /\ outbox = NoMessages
    /\ handshake = NoHandshake

TxNext ==
    \E p \in Procs :
        \/ Call(p)
        \/ IdGet(p)
        \/ IdCommit(p)
        \/ TxGetSlot(p)
        \/ TxGetCounter(p)
        \/ TxCommit(p)

\* concurrent reservation attempts on one store
SpecTx == InitStore /\ [][TxNext]_vars

-----------------------------------------------------------------------------
(* The verification handshake of the webhook (GET) *)

\* process.env.VERIFY_TOKEN || "shreyaWebhook123" with the variable unset;
\* functions.config().verify.token as the deployment configured it
VERIFY_TOKEN ==
    IF variant = "backend" THEN "shreyaWebhook123" ELSE "novamedVerify"

\* the query parameters a verification request may carry
Modes == {"subscribe", "unsubscribe", Undefined}
Tokens == {"shreyaWebhook123", "novamedVerify", Undefined}
Challenges == {"1158201444", "77"}

\* the answer that ignores hub.mode
verify_IgnoresMode(mode, token, challenge) ==
    IF token = VERIFY_TOKEN
    THEN [statusCode |-> 200, body |-> challenge]
    ELSE [statusCode |-> 403, body |-> "Forbidden"]

\* the answer to GET /webhook
verify(mode, token, challenge) ==
    IF mode = "subscribe" /\ token = VERIFY_TOKEN
    THEN [statusCode |-> 200, body |-> challenge]
    ELSE [statusCode |-> 403, body |-> "Forbidden"]

\* the platform, or anyone else, sends a verification request
Verify ==
    /\ \E mode \in Modes : \E token \in Tokens : \E challenge \in Challenges :
          handshake' = [mode |-> mode, token |-> token, challenge |-> challenge,
                        answer |-> verify(mode, token, challenge)]
    /\ outbox' = NoMessages
    /\ UNCHANGED <<variant, now, registration_states, appointments, counters,
                   patients, task, issued, returned, lastMsg>>

\* one reservation attempt at a time fills the store
HandshakeNext ==
    \/ Verify
    \/ \E p \in Procs :
          /\ \A q \in Procs \ {p} : task[q].pc \in {"idle", "attemptDone"}
          /\ \/ Call(p)
             \/ IdGet(p)
             \/ IdCommit(p)
             \/ TxGetSlot(p)
             \/ TxGetCounter(p)
             \/ TxCommit(p)

\* verification requests arriving between the steps of reservation attempts
SpecHandshake == InitStore /\ [][HandshakeNext]_vars


-----------------------------------------------------------------------------
(* The booking forms of the web application, writing the same store *)

\* doc(db, "counters", "patients")
WebCounterPath == "counters/patients"

\* what the visitor typed into the form
WebForms ==
    {[FirstName |-> fn, LastName |-> "Rao", Gender |-> "Female",
      Address |-> "12 Park Road", RegistrationDate |-> "2025-12-01",
      RegistrationTime |-> "10:00", PhoneNumber |-> "9876543210",
      Email |-> "", Department |-> "Cardiology", Age |-> "41"]
     : fn \in {"Asha", "Ravi"}}

\* the numbers Math.floor(Math.random() * 10000) is drawn from here
FallbackNumbers == {7, 1000, 1001}

\* snap.exists() ? (snap.data().lastId || 0) + 1 : 1
webNext(snap) ==
    IF snap.exists
    THEN (IF Has(snap.data, "lastId") THEN snap.data.lastId ELSE 0) + 1
    ELSE 1

\* "P" + String(next).padStart(3, "0")
webPatientId(next) ==
    "P" \o (IF next < 10 THEN "00" ELSE IF next < 100 THEN "0" ELSE "")
        \o ToString(next)

\* a visitor submits the form: handleSubmit up to runTransaction
Submit(p) ==
    /\ TaskIs(p, {"idle"})
    /\ \E formData \in WebForms :
          task' = [task EXCEPT ![p] =
                     [IdleTask EXCEPT !.caller = "webForm", !.data = formData,
                                      !.attempt = 1, !.pc = "formGet"]]
    /\ UNCHANGED <<variant, now, registration_states, appointments, counters,
                   patients, issued, returned, lastMsg>>
    /\ outbox' = NoMessages
    /\ handshake' = NoHandshake

\* const snap = await tx.get(counterRef)
FormGet(p) ==
    /\ TaskIs(p, {"formGet"})
    /\ task' = [task EXCEPT ![p].counterSnap = Snap(counters, WebCounterPath),
                            ![p].pc = "formCommit"]
    /\ UNCHANGED <<variant, now, registration_states, appointments, counters,
                   patients, issued, returned, lastMsg>>
    /\ outbox' = NoMessages
    /\ handshake' = NoHandshake

\* the form's transaction commits the counter and the patient document, or
\* is retried
FormCommit(p) ==
    /\ TaskIs(p, {"formCommit"})
    /\ LET t == task[p]
           next == webNext(t.counterSnap)
           id == webPatientId(next)
       IN  IF Snap(counters, WebCounterPath) = t.counterSnap
           THEN /\ counters' = MergeSet(counters, WebCounterPath, [lastId |-> next])
                /\ patients' = Put(patients, id, [PatientID |-> id] @@ t.data)
                /\ task' = [task EXCEPT ![p].patientId = id,
                                        ![p].writes = t.writes + 2,
                                        ![p].pc = "formDone"]
           ELSE /\ task' = [task EXCEPT ![p] = Retry(t, "formGet")]
                /\ UNCHANGED <<counters, patients>>
    /\ UNCHANGED <<variant, now, registration_states, appointments, issued,
                   returned, lastMsg>>
    /\ outbox' = NoMessages
    /\ handshake' = NoHandshake

\* catch (error): the record is saved under a random identifier
FormFallback(p) ==
    /\ TaskIs(p, {"attemptDone"})
    /\ task[p].caller = "webForm"
    /\ \E n \in FallbackNumbers :
          LET fallbackId == "P" \o ToString(n)
          IN  /\ patients' = Put(patients, fallbackId,
                                 [PatientID |-> fallbackId, Segment |-> "Uncategorized"]
                                     @@ task[p].data)
              /\ task' = [task EXCEPT ![p].patientId = fallbackId,
                                      ![p].writes = task[p].writes + 1,
                                      ![p].pc = "formDone"]
    /\ UNCHANGED <<variant, now, registration_states, appointments, counters,
                   issued, returned, lastMsg>>
    /\ outbox' = NoMessages
    /\ handshake' = NoHandshake

FormsNext ==
    \E p \in Procs :
        \/ Call(p)
        \/ IdGet(p)
        \/ IdCommit(p)
        \/ TxGetSlot(p)
        \/ TxGetCounter(p)
        \/ TxCommit(p)
        \/ Submit(p)
        \/ FormGet(p)
        \/ FormCommit(p)
        \/ FormFallback(p)

\* web form submissions and reservation attempts of the chat on one store
SpecForms == InitStore /\ [][FormsNext]_vars

-----------------------------------------------------------------------------
(* The booking form with its slots-left check: each process is a page opened
   by a visitor *)

\* doctorLimits[formData.Department] || 5, of AppointmentPage.jsx; every
\* limit is cut down to MaxCapacity
maxLimit(department) ==
    LET doctorLimits ==
            ("General Surgeon" :> 5) @@ ("Orthopedics" :> 6)
            @@ ("Pediatrics" :> 12) @@ ("ENT Specialist" :> 7)
            @@ ("Dermatology" :> 15) @@ ("Physician" :> 10)
    IN  Min(IF department \in DOMAIN doctorLimits
            THEN doctorLimits[department] ELSE 5, MaxCapacity)

\* the documents of the query on patients: where("Department", "==", ...),
\* where("RegistrationDate", "==", ...)
bookedDocs(department, date) ==
    {id \in DOMAIN patients :
        /\ Has(patients[id], "Department")
        /\ Has(patients[id], "RegistrationDate")
        /\ patients[id].Department = department
        /\ patients[id].RegistrationDate = date}

\* the visitor picks the department and the date and fills the form in;
\* fetchSlots counts the booked records: bookedCount = snapshot.size
FetchSlots(p) ==
    /\ TaskIs(p, {"idle"})
    /\ \E form \in WebForms : \E department \in {"Orthopedics", "Pediatrics"} :
          LET formData == [form EXCEPT !.Department = department]
              bookedCount ==
                  Cardinality(bookedDocs(department, formData.RegistrationDate))
          IN  task' = [task EXCEPT ![p] =
                  [IdleTask EXCEPT !.caller = "webForm", !.data = formData,
                                   !.slotSnap = [exists |-> TRUE,
                                                 data |-> [size |-> bookedCount]],
                                   !.pc = "form"]]
    /\ UNCHANGED <<variant, now, registration_states, appointments, counters,
                   patients, issued, returned, lastMsg>>
    /\ outbox' = NoMessages
    /\ handshake' = NoHandshake

\* handleSubmit up to runTransaction: slotsLeft is the value fetchSlots set,
\* maxLimit - bookedCount; if (slotsLeft <= 0) the page alerts and returns
HandleSubmit(p) ==
    /\ TaskIs(p, {"form"})
    /\ LET t == task[p]
           slotsLeft == maxLimit(t.data.Department) - t.slotSnap.data.size
       IN  task' = [task EXCEPT ![p] =
                      IF slotsLeft <= 0 THEN [t EXCEPT !.pc = "formRefused"]
                      ELSE [t EXCEPT !.attempt = 1, !.pc = "formGet"]]
    /\ UNCHANGED <<variant, now, registration_states, appointments, counters,
                   patients, issued, returned, lastMsg>>
    /\ outbox' = NoMessages
    /\ handshake' = NoHandshake

BookingNext ==
    \E p \in Procs :
        \/ FetchSlots(p)
        \/ HandleSubmit(p)
        \/ FormGet(p)
        \/ FormCommit(p)

\* visitors book over the form, concurrently
SpecBooking == InitStore /\ [][BookingNext]_vars

-----------------------------------------------------------------------------
(* The time-slot generators of the repository, applied to the windows of the
   departments *)

\* doctorSchedule of AppointmentPage.jsx
doctorSchedule ==
    ("General Surgeon" :> <<"09:00", "12:00">>)
    @@ ("Orthopedics" :> <<"10:00", "13:00">>)
    @@ ("Pediatrics" :> <<"15:00", "18:00">>)
    @@ ("ENT Specialist" :> <<"11:00", "16:00">>)
    @@ ("Dermatology" :> <<"09:00", "18:00">>)
    @@ ("Physician" :> <<"09:00", "12:00">>)

\* the minutes between two slots of the booking form
SlotStep == 30

\* generateSlots of AppointmentPage.jsx: every SlotStep minutes from start up
\* to end
generateSlots(start, end) ==
    LET s == HourOf(start) * 60 + MinuteOf(start)
        e == HourOf(end) * 60 + MinuteOf(end)
        n == IF e >= s THEN ((e - s) \div SlotStep) + 1 ELSE 0
    IN  [i \in 1..n |-> PadStart2((s + SlotStep * (i - 1)) \div 60) \o ":"
                          \o PadStart2((s + SlotStep * (i - 1)) % 60)]

\* the windows of the departments, of the chat catalog and of the form
Windows ==
    {departmentSlots[d].times : d \in DOMAIN departmentSlots}
    \cup {doctorSchedule[d] : d \in DOMAIN doctorSchedule}

\* the slots one component has generated for a window
Generated(p, generator, window, slots) ==
    /\ TaskIs(p, {"idle"})
    /\ task' = [task EXCEPT ![p] =
                  [IdleTask EXCEPT !.caller = generator,
                                   !.data = [window |-> window, slots |-> slots],
                                   !.pc = "slots"]]
    /\ UNCHANGED <<variant, now, registration_states, appointments, counters,
                   patients, issued, returned, lastMsg>>
    /\ outbox' = NoMessages
    /\ handshake' = NoHandshake

\* the backend's reservation check and time menu: hoursBetween(...times)
HoursBetween(p) ==
    \E w \in Windows : Generated(p, "hoursBetween", w, hoursBetween(w[1], w[2]))

\* the functions variant's time buttons: generateTimeSlots(...range)
GenerateTimeSlots(p) ==
    \E w \in Windows :
        Generated(p, "generateTimeSlots", w, generateTimeSlots(w[1], w[2]))

\* the booking form's time buttons: generateSlots(start, end)
GenerateSlots(p) ==
    \E w \in Windows : Generated(p, "generateSlots", w, generateSlots(w[1], w[2]))

SlotsNext ==
    \E p \in Procs :
        \/ HoursBetween(p)
        \/ GenerateTimeSlots(p)
        \/ GenerateSlots(p)

\* the components generate the slots of windows, in any order
SpecSlots == InitStore /\ [][SlotsNext]_vars

-----------------------------------------------------------------------------
(* Sessions: getState, setState, resetState *)

\* the field that holds the time of the last write of a session
TsField == IF variant = "backend" THEN "updatedAt" ELSE "lastActive"

\* the idle test with >= in place of >
isExpired_AtLimit(data) == Has(data, TsField) /\ now - data[TsField] >= IdleLimit

\* ageMs > 30 * 60 * 1000 / diffMinutes > 30, for a session that has a timestamp
isExpired(data) == Has(data, TsField) /\ now - data[TsField] > IdleLimit

\* getState that hands out the fields of a stale session
getState_StaleData(sender) ==
    LET doc == Snap(registration_states, sender)
    IN  IF ~doc.exists THEN [reset |-> FALSE, state |-> EmptyState]
        ELSE IF isExpired(doc.data)
        THEN [reset |-> TRUE, state |-> [step |-> Undefined, data |-> doc.data.data]]
        ELSE [reset |-> FALSE,
              state |-> [step |-> doc.data.step, data |-> doc.data.data]]

\* getState(sender): what is returned, and whether resetState is called first
getState(sender) ==
    LET doc == Snap(registration_states, sender)
    IN  IF ~doc.exists THEN [reset |-> FALSE, state |-> EmptyState]
        ELSE IF isExpired(doc.data) THEN [reset |-> TRUE, state |-> EmptyState]
        ELSE [reset |-> FALSE,
              state |-> [step |-> doc.data.step, data |-> doc.data.data]]

\* the document setState(sender, state) writes: { ...state, <timestamp>: now }
stateDoc(state) ==
    ("step" :> state.step) @@ ("data" :> state.data) @@ (TsField :> now)

\* a store that keeps one session document for all senders
setState_OneDocument(sender, state) ==
    [k \in DOMAIN registration_states \cup {sender} |-> stateDoc(state)]

\* setState(sender, state)
setState(sender, state) == Put(registration_states, sender, stateDoc(state))

\* resetState(sender)
resetState(sender) == Delete(registration_states, sender)

-----------------------------------------------------------------------------
(* The dialogue: what a handler does with a message once it has the state.
   A decision names the store write that follows (op), the state written,
   the message sent to the sender after the write (reply), and the
   reservation attempt started instead of a reply, if any. *)

\* the handler throws before it sends anything
NoReply == Undefined

Reprompt(reply) ==
    [op |-> "none", state |-> EmptyState, attempt |-> FALSE, reply |-> reply]
\* the write that stores the answer alone: the data keep only the field of
\* the step just answered
Advance_AnswerAlone(step, data, reply) ==
    LET answered == {StepNames[i] : i \in {j \in 1..(Len(StepNames) - 1) :
                                              StepNames[j + 1] = step}}
    IN  [op |-> "set",
         state |-> [step |-> step,
                    data |-> IF answered = {} THEN data
                             ELSE [f \in DOMAIN data \cap answered |-> data[f]]],
         attempt |-> FALSE, reply |-> reply]

Advance(step, data, reply) ==
    [op |-> "set", state |-> [step |-> step, data |-> data], attempt |-> FALSE,
     reply |-> reply]
Attempt(op, state, path) ==
    [op |-> op, state |-> state, attempt |-> TRUE, caller |-> path,
     reply |-> NoReply]
\* the default case without resetState
SessionReset_Keeps ==
    [op |-> "none", state |-> EmptyState, attempt |-> FALSE,
     reply |-> "sessionReset"]

SessionReset ==
    [op |-> "delete", state |-> EmptyState, attempt |-> FALSE,
     reply |-> "sessionReset"]
\* the reply of the decision is sent with sendButtons(sender, text, options)
WithButtons(decision, options) == [buttons |-> options] @@ decision

\* name.split(" ")[0] and name.split(" ").slice(1).join(" ")
FirstWord(name) ==
    IF IndexOf(name, " ") = 0 THEN name ELSE SubSeq(name, 1, IndexOf(name, " ") - 1)
RestWords(name) ==
    IF IndexOf(name, " ") = 0 THEN "" ELSE SubSeq(name, IndexOf(name, " ") + 1, Len(name))

\* obj.f = v only when v is truthy
PutIf(obj, f, v) == IF Truthy(v) THEN Put(obj, f, v) ELSE obj

\* backend processMessage with no step: the start phrase, or the NLP bootstrap
backendBootstrap(m) ==
    LET phone == m.trimmed.extractPhone
        email == m.trimmed.extractEmail
        name == m.trimmed.extractNameFromSentence
        dept == m.trimmed.normalizeDepartment
        gender == m.trimmed.normalizeGender
        dt == extractDateTime(m.trimmed)
        named == IF Truthy(name)
                 THEN Put(Put(NoFields, "firstName", FirstWord(name)),
                          "lastName", RestWords(name))
                 ELSE NoFields
        data == PutIf(PutIf(PutIf(PutIf(PutIf(PutIf(named,
                    "phoneNumber", phone), "email", email), "department", dept),
                    "gender", gender), "registrationDate", dt.date),
                    "registrationTime", dt.time)
        enough == /\ Truthy(Get(data, "phoneNumber"))
                  /\ Truthy(Get(data, "department"))
                  /\ Truthy(Get(data, "registrationDate"))
                  /\ Truthy(Get(data, "registrationTime"))
                  /\ Truthy(Get(data, "firstName"))
    IN  IF \/ Includes(m.lowered.text, "patient registration")
           \/ Includes(m.lowered.text, "register me")
        THEN Advance("firstName", NoFields, "askFirstName")
        ELSE IF Truthy(phone) \/ Truthy(email) \/ Truthy(name) \/ Truthy(dept)
                \/ Truthy(dt.date) \/ Truthy(dt.time) \/ Truthy(gender)
        THEN IF enough
             THEN Attempt("set", [step |-> "firstName", data |-> data], "oneShot")
             ELSE Advance("firstName", data, "askFirstName")
        ELSE Reprompt("sayStart")

\* the time the backend registrationTime step reads from an answer, or Undefined
backendTimeAnswer(times, m) ==
    LET choice == m.trimmed.parseChoice
        padded == m.padded.text
        dt == chronoParse(m.padded)
        candidateTime == IF dt.found THEN PadStart2(HourOf(dt.time)) \o ":00" ELSE padded
    IN  IF choice >= 1 /\ choice <= Len(times) THEN times[choice]
        ELSE IF SeqIncludes(times, candidateTime) THEN candidateTime
        ELSE Undefined

\* backend processMessage with an active conversation: the switch on s.step
backendStep(state, m) ==
    LET d == state.data
        text == m.trimmed.text
        step == state.step
    IN  IF step = "firstName"
        THEN Advance("lastName", Put(d, "firstName", text), "askLastName")
        ELSE IF step = "lastName"
        THEN Advance("gender", Put(d, "lastName", IF text = "-" THEN "" ELSE text),
                     "askGender")
        ELSE IF step = "gender"
        THEN LET choice == m.trimmed.parseChoice
                 g == IF choice = 1 THEN "Male"
                      ELSE IF choice = 2 THEN "Female"
                      ELSE IF choice = 3 THEN "Other"
                      ELSE m.trimmed.normalizeGender
             IN  IF Truthy(g) THEN Advance("address", Put(d, "gender", g), "askAddress")
                 ELSE Reprompt("askGender")
        ELSE IF step = "address"
        THEN Advance("email", Put(d, "address", text), "askEmail")
        ELSE IF step = "email"
        THEN IF m.lowered.text = "skip"
             THEN Advance("phoneNumber", Put(d, "email", ""), "askPhone")
             ELSE IF Truthy(m.trimmed.validateEmail)
             THEN Advance("phoneNumber", Put(d, "email", m.trimmed.validateEmail),
                          "askPhone")
             ELSE Reprompt("askEmail")
        ELSE IF step = "phoneNumber"
        THEN IF Truthy(m.trimmed.validatePhone)
             THEN Advance("department", Put(d, "phoneNumber", m.trimmed.validatePhone),
                          "askDepartment")
             ELSE Reprompt("askPhone")
        ELSE IF step = "department"
        THEN LET choice == m.trimmed.parseChoice
                 dept == IF choice >= 1 /\ choice <= Len(deptList) THEN deptList[choice]
                         ELSE m.trimmed.normalizeDepartment
             IN  IF Truthy(dept)
                 THEN Advance("registrationDate", Put(d, "department", dept), "askDate")
                 ELSE Reprompt("askDepartment")
        ELSE IF step = "registrationDate"
        THEN LET parsed == chronoParse(m.trimmed)
             IN  IF ~parsed.found \/ parsed.day <= TodayIndex THEN Reprompt("askDate")
                 \* the time menu that follows the write reads doctorLimits, which
                 \* is not defined: a ReferenceError before the menu is sent
                 ELSE Advance("registrationTime",
                              Put(d, "registrationDate", Calendar[parsed.day]),
                              NoReply)
        ELSE IF step = "registrationTime"
        THEN \* departmentSlots[d.department].times throws without a department
             IF ~InCatalog(Get(d, "department")) THEN Reprompt(NoReply)
             ELSE LET times == hoursBetween(departmentSlots[d.department].times[1],
                                            departmentSlots[d.department].times[2])
                      time == backendTimeAnswer(times, m)
                  IN  IF Truthy(time)
                      THEN Attempt("none",
                                   [step |-> step, data |-> Put(d, "registrationTime", time)],
                                   "stepTime")
                      ELSE Reprompt("askTime")
        ELSE SessionReset

\* the data of the quick booking of the functions variant
quickBookingData(sender, parsed) ==
    ("firstName" :> "Unknown") @@ ("lastName" :> "Unknown")
    @@ ("gender" :> OrElse(parsed.gender, "Other"))
    @@ ("address" :> "Unknown") @@ ("email" :> "Unknown")
    @@ ("phoneNumber" :> sender)
    @@ ("department" :> parsed.department)
    @@ ("registrationDate" :> parsed.date)
    @@ ("registrationTime" :> parsed.time)

\* functions webhook with no step: the NLP shortcut, or the start phrase
functionsBootstrap(sender, m) ==
    LET parsed == parseFullSentence(m.lowered)
    IN  IF Truthy(parsed.department) /\ Truthy(parsed.date) /\ Truthy(parsed.time)
        THEN Attempt("none", [step |-> Undefined,
                              data |-> quickBookingData(sender, parsed)], "oneShot")
        ELSE IF Includes(m.lowered.text, "patient registration")
        THEN Advance("firstName", NoFields, "askFirstName")
        ELSE Reprompt("sayStart")

\* functions webhook with an active conversation: the switch on state.step;
\* raw is message.text.body
functionsStep(state, m) ==
    LET d == state.data
        raw == m.raw.text
        step == state.step
    IN  IF step = "firstName"
        THEN Advance("lastName", Put(d, "firstName", raw), "askLastName")
        ELSE IF step = "lastName"
        THEN Advance("gender", Put(d, "lastName", raw), "askGender")
        ELSE IF step = "gender"
        THEN Advance("address", Put(d, "gender", Trim(OrElse(raw, "Other"))),
                     "askAddress")
        ELSE IF step = "address"
        THEN Advance("email", Put(d, "address", raw), "askEmail")
        ELSE IF step = "email"
        THEN IF m.raw.EmailShape
             THEN Advance("phoneNumber", Put(d, "email", raw), "askPhone")
             ELSE Reprompt("askEmail")
        ELSE IF step = "phoneNumber"
        THEN IF HasDigitRun(m.raw.DropSpaces, 10)
             THEN Advance("department", Put(d, "phoneNumber", m.raw.DropSpaces),
                          "askDepartment")
             ELSE Reprompt("askPhone")
        ELSE IF step = "department"
        THEN IF Truthy(m.raw.normalizeDepartment)
             THEN Advance("registrationDate",
                          Put(d, "department", m.raw.normalizeDepartment), "askDate")
             ELSE Reprompt("askDepartment")
        ELSE IF step = "registrationDate"
        THEN IF ~Truthy(parseFutureDate(m.raw)) THEN Reprompt("askDate")
             \* departmentSlots[state.data.department].range throws before the write
             ELSE IF ~InCatalog(Get(d, "department")) THEN Reprompt(NoReply)
             \* sendButtons(sender, "Available times for ...", slots) with
             \* every slot generateTimeSlots made
             ELSE WithButtons(Advance("registrationTime",
                                      Put(d, "registrationDate", parseFutureDate(m.raw)),
                                      "askTime"),
                              timeSlots[d.department])
        ELSE IF step = "registrationTime"
        THEN IF ~InCatalog(Get(d, "department")) THEN Reprompt(NoReply)
             ELSE LET normalized == normalizeTimeForDepartment(d.department, raw)
                  IN  IF Truthy(normalized)
                      THEN Attempt("none",
                                   [step |-> step,
                                    data |-> Put(d, "registrationTime", normalized)],
                                   "stepTime")
                      ELSE Reprompt("askTime")
        ELSE SessionReset

\* what the handler of a message from sender decides, given the readings of
\* the message (m) and the state getState returned
decide(sender, state, m) ==
    IF variant = "backend"
    THEN IF ~Truthy(state.step) THEN backendBootstrap(m) ELSE backendStep(state, m)
    ELSE IF ~Truthy(state.step) THEN functionsBootstrap(sender, m)
         ELSE functionsStep(state, m)

\* the greeting test of the handler
greeted(m) ==
    IF variant = "backend" THEN m.trimmed.isGreeting
    ELSE functionsIsGreeting(m.lowered.text)

-----------------------------------------------------------------------------
(* Webhook handlers: one task per inbound message *)

\* the step a sender's stored session is at, "none" without one
storedStep(sender) ==
    IF sender \in DOMAIN registration_states
    THEN registration_states[sender].step ELSE "none"

\* the handler takes a message: a greeting (hello) is answered with the
\* welcome text and the handler ends; otherwise it reads the sender's state
Take(p, sender, body, fresh, hello) ==
    /\ p \in Handlers
    /\ TaskIs(p, {"idle"})
    /\ StartAllowed
    /\ LET got == getState(sender)
           t == [IdleTask EXCEPT !.sender = sender, !.text = body,
                                 !.current = TRUE, !.state = got.state,
                                 !.pc = IF got.reset THEN "expired" ELSE "dispatch"]
       IN  task' = [q \in Procs |->
                      IF q = p THEN (IF hello THEN IdleTask ELSE t)
                      ELSE IF fresh /\ task[q].sender = sender
                           THEN [task[q] EXCEPT !.current = FALSE]
                      ELSE task[q]]
    /\ \E sent \in BOOLEAN :
          outbox' = IF hello THEN Send(sender, "welcome", sent) ELSE NoMessages
    /\ lastMsg' = IF fresh
                  THEN Put(lastMsg, sender,
                           [text |-> body, booked |-> 0, at |-> now,
                            redelivered |-> IF sender \in DOMAIN lastMsg
                                            THEN lastMsg[sender].redelivered ELSE 0])
                  ELSE [lastMsg EXCEPT ![sender].redelivered = @ + 1,
                                       ![sender].at = now]
    /\ UNCHANGED <<variant, now, registration_states, appointments, counters,
                   patients, issued, returned, handshake>>

\* the handler of one delivery, up to the return of the state read
Receive(p, sender, body, fresh) ==
    Take(p, sender, body, fresh, greeted(read[body]))

\* a sender writes a message and it is delivered; the conversation is
\* turn-based: the sender writes once the earlier message has been handled
NewMessage(p) ==
    \E sender \in Senders : \E body \in Utterances(storedStep(sender)) :
        /\ \A q \in Procs : task[q].sender # sender
        /\ Receive(p, sender, body, TRUE)

\* the platform delivers a sender's latest message once more
Redeliver(p) ==
    \E sender \in DOMAIN lastMsg :
        /\ lastMsg[sender].redelivered < MaxRedeliveries
        /\ Receive(p, sender, lastMsg[sender].text, FALSE)

\* getState found the session stale: await resetState(sender)
Expire(p) ==
    /\ TaskIs(p, {"expired"})
    /\ registration_states' = resetState(task[p].sender)
    /\ task' = [task EXCEPT ![p].pc = "dispatch"]
    /\ UNCHANGED <<variant, now, appointments, counters, patients, issued,
                   returned, lastMsg>>
    /\ outbox' = NoMessages
    /\ handshake' = NoHandshake

\* what a handler does once it has decided (r): the session write of the
\* step, then the reply, or the reservation attempt when the step calls for one
Act(p, t, r) ==
    /\ registration_states' =
          IF r.op = "set" THEN setState(t.sender, r.state)
          ELSE IF r.op = "delete" THEN resetState(t.sender)
          ELSE registration_states
    /\ task' = [task EXCEPT ![p] =
          IF r.attempt
          THEN BeginAttempt([t EXCEPT !.state = r.state], r.caller, r.state.data)
          ELSE IdleTask]
    /\ \E sent \in BOOLEAN :
          outbox' = IF ~Truthy(r.reply) THEN NoMessages
                    ELSE IF Has(r, "buttons")
                    THEN sendButtons(t.sender, r.reply, r.buttons, sent)
                    ELSE Send(t.sender, r.reply, sent)

\* the handler acts on the message it took
Dispatch(p) ==
    /\ TaskIs(p, {"dispatch"})
    /\ Act(p, task[p], decide(task[p].sender, task[p].state, read[task[p].text]))
    /\ UNCHANGED <<variant, now, appointments, counters, patients, issued,
                   returned, lastMsg, handshake>>

\* the handler that leaves the session as it is after the attempt
sessionAfterAttempt_Keeps(t, sent1, sent2) == registration_states

\* the session write the handler makes once attemptRegistration has returned
\* or thrown; sent1 and sent2 tell whether the first and the second outbound
\* message of the handler went through
sessionAfterAttempt(t, sent1, sent2) ==
    LET caught(sent) ==
            \* catch (err): the error message, then the session is written back
            IF sent
            THEN setState(t.sender,
                          [step |-> IF t.caller = "oneShot" THEN "firstName"
                                    ELSE "registrationTime",
                           data |-> t.state.data])
            ELSE registration_states
    IN  IF variant = "backend"
        THEN IF t.err = ""
             THEN IF sent1 THEN resetState(t.sender) ELSE caught(sent2)
             ELSE caught(sent1)
        ELSE IF t.caller = "stepTime" /\ t.err = "" /\ sent1
             THEN resetState(t.sender)
             ELSE registration_states

\* the send calls the handler makes once attemptRegistration has returned
\* or thrown
repliesAfterAttempt(t, sent1, sent2) ==
    LET caught(sent) ==
            Send(t.sender, IF t.caller = "oneShot" THEN "askFirstName"
                           ELSE "chooseOtherTime", sent)
    IN  IF variant = "functions" /\ t.caller = "oneShot"
        \* the quick booking is not inside a try: an error ends the handler
        THEN IF t.err = "" THEN Send(t.sender, "confirmation", sent1)
             ELSE NoMessages
        ELSE IF t.err = ""
             THEN IF sent1 THEN Message(t.sender, "confirmation")
                  ELSE Lost(t.sender, "confirmation") \o caught(sent2)
             ELSE caught(sent1)

\* the handler reports the outcome of the attempt and ends
AfterAttempt(p) ==
    /\ TaskIs(p, {"attemptDone"})
    /\ task[p].caller \in {"oneShot", "stepTime"}
    /\ \E sent1, sent2 \in BOOLEAN :
          /\ registration_states' = sessionAfterAttempt(task[p], sent1, sent2)
          /\ outbox' = repliesAfterAttempt(task[p], sent1, sent2)
    /\ task' = [task EXCEPT ![p] = IdleTask]
    /\ UNCHANGED <<variant, now, appointments, counters, patients, issued,
                   returned, lastMsg, handshake>>

\* time passes: a minute, or the idle limit
Tick ==
    /\ \E d \in {1, IdleLimit} :
          /\ (now + d) % IdleLimit <= MaxTicks
          /\ (now + d) \div IdleLimit <= MaxTicks
          /\ now' = now + d
    /\ UNCHANGED <<variant, registration_states, appointments, counters,
                   patients, task, issued, returned, lastMsg>>
    /\ outbox' = NoMessages
    /\ handshake' = NoHandshake

Init == InitStore

Next ==
    \/ \E p \in Procs :
          \/ NewMessage(p)
          \/ Redeliver(p)
          \/ Expire(p)
          \/ Dispatch(p)
          \/ IdGet(p)
          \/ IdCommit(p)
          \/ TxGetSlot(p)
          \/ TxGetCounter(p)
          \/ TxCommit(p)
          \/ AfterAttempt(p)
    \/ Tick

\* conversations over the webhook, concurrent and interleaved with the clock
Spec == Init /\ [][Next]_vars

-----------------------------------------------------------------------------
(* Single answers: a conversation that stands at one step and is answered
   with one of many texts, one handler at a time *)

\* the fields a conversation has collected when it reaches the step
collectedBefore(step, department) ==
    LET all == ("firstName" :> "Asha") @@ ("lastName" :> "Rao")
               @@ ("gender" :> "Female") @@ ("address" :> "12 Park Road")
               @@ ("email" :> "a@b.co") @@ ("phoneNumber" :> "9876543210")
               @@ ("department" :> department)
               @@ ("registrationDate" :> Calendar[TodayIndex + 1])
        before == {StepNames[i] : i \in {j \in 1..Len(StepNames) :
                                            \E k \in (j + 1)..Len(StepNames) :
                                               StepNames[k] = step}}
    IN  [f \in before |-> all[f]]

\* a step value that no case of the switch names
UnknownStep == "payment"

\* the sessions the answers are given to: none, one at the gender step, one
\* at the email step, one at the registrationTime step for each department of
\* the catalog, and one with an unknown step that holds every field of a
\* booking
StartingSessions ==
    {EmptyState, [step |-> "gender", data |-> collectedBefore("gender", Undefined)],
     [step |-> "email", data |-> collectedBefore("email", Undefined)],
     [step |-> UnknownStep,
      data |-> Put(collectedBefore("registrationTime", "Cardiology"),
                   "registrationTime", "10:00")]}
    \cup {[step |-> "registrationTime",
           data |-> collectedBefore("registrationTime", deptList[i])] :
             i \in 1..Len(deptList)}

InitAnswers ==
    /\ variant \in {"backend", "functions"}
    /\ now = 0
    /\ \E state \in StartingSessions :
          registration_states =
             IF Truthy(state.step)
             THEN (CHOOSE sender \in Senders : TRUE) :> stateDoc(state)
             ELSE <<>>
    /\ appointments = <<>>
    /\ counters = <<>>
    /\ patients = <<>>
    /\ task = [p \in Procs |-> IdleTask]
    /\ issued = <<>>
    /\ returned = <<>>
    /\ lastMsg = <<>>
    /\ outbox = NoMessages
    /\ handshake = NoHandshake

\* a sender answers the step the conversation is at
NewAnswer(p) ==
    \E sender \in Senders : \E body \in AnswerTexts(storedStep(sender)) :
        /\ \A q \in Procs : task[q].sender # sender
        /\ Receive(p, sender, body, TRUE)

AnswersNext ==
    \E p \in Procs :
        \/ NewAnswer(p)
        \/ Dispatch(p)
        \/ IdGet(p)
        \/ IdCommit(p)
        \/ TxGetSlot(p)
        \/ TxGetCounter(p)
        \/ TxCommit(p)
        \/ AfterAttempt(p)

SpecAnswers == InitAnswers /\ [][AnswersNext]_vars

-----------------------------------------------------------------------------
(* Two senders: conversations of different senders, handled concurrently *)

\* the senders of the concurrent conversations
Chatters == Senders \cup {"919800000002"}

\* what the two senders write
ChatterTexts == {"book cardiology", "female", "10:00", "later", "hi"}

\* the sessions the two conversations start from: at the gender step, at the
\* registrationTime step of Cardiology, and one with an unknown step
ChatterSessions ==
    {state \in StartingSessions :
        \/ state.step \in {"gender", UnknownStep}
        \/ /\ state.step = "registrationTime"
           /\ state.data.department = "Cardiology"}

\* each sender has no session or one of the starting sessions
InitChatters ==
    /\ variant \in {"backend", "functions"}
    /\ now = 0
    /\ \E stored \in SUBSET Chatters :
       \E states \in [stored -> ChatterSessions] :
          registration_states = [sender \in stored |-> stateDoc(states[sender])]
    /\ appointments = <<>>
    /\ counters = <<>>
    /\ patients = <<>>
    /\ task = [p \in Procs |-> IdleTask]
    /\ issued = <<>>
    /\ returned = <<>>
    /\ lastMsg = <<>>
    /\ outbox = NoMessages
    /\ handshake = NoHandshake

\* one of the senders answers the step their conversation is at, while
\* messages of the other sender may be in handling
ChatterAnswers(p) ==
    \E sender \in Chatters :
    \E body \in AnswerTexts(storedStep(sender)) \cap ChatterTexts :
        /\ \A q \in Procs : task[q].sender # sender
        /\ Receive(p, sender, body, TRUE)

ChattersNext ==
    \/ \E p \in Procs :
          \/ ChatterAnswers(p)
          \/ Expire(p)
          \/ Dispatch(p)
          \/ IdGet(p)
          \/ IdCommit(p)
          \/ TxGetSlot(p)
          \/ TxGetCounter(p)
          \/ TxCommit(p)
          \/ AfterAttempt(p)
    \/ Tick

SpecChatters == InitChatters /\ [][ChattersNext]_vars

-----------------------------------------------------------------------------
(* Claims about the reservation transaction, checked under SpecTx *)

Counter == Snap(counters, CounterPath)

\* patient documents booked into the slot of patient document r
SameSlot(r) ==
    {id \in DOMAIN patients :
        /\ PatientDept(patients[id]) = PatientDept(r)
        /\ PatientDate(patients[id]) = PatientDate(r)
        /\ PatientTime(patients[id]) = PatientTime(r)}

Done(p) == task[p].pc = "attemptDone"
Succeeded(p) == Done(p) /\ task[p].err = ""
\* the attempt lost a commit to a concurrent one and ran again
WasRetried(p) == task[p].attempt > 1

\* C1: for every department, date and time, the number of patient records
\* booked into that slot is at most the department's capacity, whatever the
\* interleaving of the reservation attempts.
C1_CapacityNeverExceeded ==
    \A id \in DOMAIN patients :
        /\ InCatalog(PatientDept(patients[id]))
        /\ Cardinality(SameSlot(patients[id]))
              <= departmentSlots[PatientDept(patients[id])].capacity

\* a slot filled to its capacity while an attempt on it, retried after a
\* conflict, was turned away
C1_Witness ==
    \E p \in Procs :
        /\ Done(p) /\ IsSlotFullError(task[p].err) /\ WasRetried(p)
        /\ Cardinality({id \in DOMAIN patients :
                            PatientDept(patients[id]) = task[p].data.department
                            /\ PatientTime(patients[id]) = task[p].data.registrationTime})
              = departmentSlots[task[p].data.department].capacity

\* C2: the identifiers are issued in strictly increasing order of their
\* numeric part, the identifiers returned by successful reservations are
\* pairwise distinct, and each of them was issued by the counter.
C2_IdsDistinctIncreasing ==
    /\ \A i, j \in 1..Len(issued) :
          i < j => NumericPart(issued[i]) < NumericPart(issued[j])
    /\ \A i, j \in 1..Len(returned) : i # j => returned[i] # returned[j]
    /\ Range(returned) \subseteq Range(issued)

\* two reservations returned identifiers although an attempt was retried and
\* another one failed
C2_Witness ==
    /\ Len(returned) >= 2
    /\ \E p \in Procs : Succeeded(p) /\ WasRetried(p)
    /\ \E p \in Procs : Done(p) /\ task[p].err # ""

\* increments of the identifier counter so far
Increments == IF Counter.exists THEN Counter.data.count - 1000 ELSE 0

\* C3: the counter has been incremented exactly once per patient record, and
\* every patient record's identifier is in the occupant list of the ledger
\* entry of its own department, date and time.
C3_StoreConsistent ==
    /\ Increments = Cardinality(DOMAIN patients)
    /\ \A id \in DOMAIN patients :
          LET r == patients[id]
              k == PatientDept(r) \o "_" \o PatientDate(r) \o "_" \o PatientTime(r)
          IN  k \in DOMAIN appointments /\ SeqIncludes(appointments[k].patients, id)

AllDone == \A p \in Procs : Done(p)
\* every attempt passed the checks and is for the same slot
OneSlot ==
    \A p, q \in Procs :
        /\ task[p].err \notin {ErrDeptMissing, ErrInvalidDept, ErrTimeNotAllowed}
        /\ slotIdOf(task[p].data) = slotIdOf(task[q].data)
CapacityOfAll == departmentSlots[task[1].data.department].capacity
Winners == {p \in Procs : Succeeded(p)}

\* C5 as stated: of N > C concurrent attempts on one empty slot exactly C
\* succeed, and every other one fails with SlotFull and no other error.
C5_ExactlyCapacitySucceed ==
    (AllDone /\ OneSlot /\ NumProcs > CapacityOfAll) =>
        /\ Cardinality(Winners) = CapacityOfAll
        /\ \A p \in Procs \ Winners : IsSlotFullError(task[p].err)

\* C5, amended: of N > C concurrent attempts on one empty slot at most C
\* succeed, with pairwise distinct identifiers; every other one fails with
\* SlotFull or, its transaction retries used up, with the store's conflict
\* error; if none fails with the conflict error, exactly C succeed.
C5_AtMostCapacitySucceed ==
    (AllDone /\ OneSlot /\ NumProcs > CapacityOfAll) =>
        /\ Cardinality(Winners) <= CapacityOfAll
        /\ \A p, q \in Winners : p # q => task[p].patientId # task[q].patientId
        /\ \A p \in Procs \ Winners :
              IsSlotFullError(task[p].err) \/ task[p].err = ErrAborted
        /\ (\A p \in Procs : task[p].err # ErrAborted)
              => Cardinality(Winners) = CapacityOfAll

\* all attempts were for one slot: as many as the capacity won, after a
\* retry, and one was turned away with SlotFull
C5_Witness ==
    /\ AllDone /\ OneSlot /\ NumProcs > CapacityOfAll
    /\ Cardinality(Winners) = CapacityOfAll
    /\ \E p \in Winners : WasRetried(p)
    /\ \E p \in Procs : IsSlotFullError(task[p].err)

\* C6: a reservation attempt that fails with SlotFull has written nothing to
\* the counter, the ledger or the patient records.
C6_SlotFullWritesNothing ==
    \A p \in Procs : (Done(p) /\ IsSlotFullError(task[p].err)) => task[p].writes = 0

\* C7: every ledger entry has count = length of its occupant list and
\* count <= the capacity of its department.
C7_LedgerCountInvariant ==
    \A k \in DOMAIN appointments :
        /\ appointments[k].count = Len(appointments[k].patients)
        /\ appointments[k].count <= departmentSlots[appointments[k].department].capacity

\* a ledger entry filled to capacity by attempts of which one was retried
C7_Witness ==
    \E k \in DOMAIN appointments :
        /\ appointments[k].count = departmentSlots[appointments[k].department].capacity
        /\ \E p \in Procs : Succeeded(p) /\ WasRetried(p) /\ slotIdOf(task[p].data) = k

-----------------------------------------------------------------------------
(* Claims about the conversation, checked under Spec *)

\* C4: however often one inbound message is delivered, and whether its
\* copies are handled one after the other or at the same time, the handlers
\* of that message create at most one Patient Record.
C4_DuplicateDeliveryOneRecord ==
    \A sender \in DOMAIN lastMsg : lastMsg[sender].booked <= 1

\* C8: the state read of a handler returns a stored session with its step and
\* data, and leaves it stored, when at most IdleLimit minutes have passed
\* since its timestamp; when more have passed it returns step none with empty
\* data and the session is deleted before the message is acted on.
C8_ExpiryExactlyAfterLimit ==
    [][\A p \in Procs :
          /\ (task[p].pc = "idle" /\ task'[p].pc \in {"dispatch", "expired"}
                /\ task'[p].sender \in DOMAIN registration_states)
                => LET doc == registration_states[task'[p].sender]
                   IN  IF now - doc[TsField] > IdleLimit
                       THEN /\ task'[p].pc = "expired"
                            /\ task'[p].state = EmptyState
                       ELSE /\ task'[p].pc = "dispatch"
                            /\ task'[p].state = [step |-> doc.step, data |-> doc.data]
                            /\ registration_states' = registration_states
          /\ (task[p].pc = "expired" /\ task'[p].pc # "expired")
                => /\ task[p].sender \notin DOMAIN registration_states'
                   /\ task'[p].pc = "dispatch"
                   /\ task'[p].state = EmptyState]_vars

\* a handler holds the step of a session that was written exactly IdleLimit
\* minutes before the read
C8_Witness ==
    \E p \in Procs :
        /\ task[p].pc = "dispatch"
        /\ Truthy(task[p].state.step)
        /\ task[p].sender \in DOMAIN registration_states
        /\ now - registration_states[task[p].sender][TsField] = IdleLimit

\* the answers that are not valid at a step: a gender outside the three
\* choices, a text without the email shape, too few digits, a department
\* outside the catalog, a date that is not in the future, a time that is no
\* slot
InvalidAnswers(step) ==
    IF step = "gender" THEN {"xx"}
    ELSE IF step = "email" THEN {"nope"}
    ELSE IF step = "phoneNumber" THEN {"12345"}
    ELSE IF step = "department" THEN {"dental"}
    ELSE IF step = "registrationDate" THEN {"today"}
    ELSE IF step = "registrationTime" THEN {"25:00"}
    ELSE {}

\* C9: a handler that holds a session at some step and an answer that is not
\* valid at that step ends without writing: the stored session keeps its step
\* and every field.
C9_InvalidAnswerKeepsSession ==
    [][\A p \in Procs :
          (/\ task[p].pc = "dispatch" /\ task'[p].pc # "dispatch"
           /\ Truthy(task[p].state.step)
           /\ task[p].text \in InvalidAnswers(task[p].state.step))
             => /\ registration_states' = registration_states
                /\ task'[p].pc = "idle"]_vars

\* C10: when a handler ends after its reservation attempt succeeded, on the
\* one-shot path or at the registrationTime step, the sender has no stored
\* session.
C10_NoSessionAfterSuccess ==
    [][\A p \in Procs :
          (/\ task[p].pc = "attemptDone" /\ task'[p].pc = "idle"
           /\ task[p].caller \in {"oneShot", "stepTime"}
           /\ task[p].err = "")
             => task[p].sender \notin DOMAIN registration_states']_vars

-----------------------------------------------------------------------------
(* Claims about what the reservation accepts, checked under SpecTx *)

\* the generated time slots of a department, as the running variant makes them
SlotTimesOf(department) ==
    IF variant = "backend"
    THEN hoursBetween(departmentSlots[department].times[1],
                      departmentSlots[department].times[2])
    ELSE timeSlots[department]

\* a department of the catalog together with one of its generated slots
IsCatalogSlot(department, time) ==
    InCatalog(department) /\ SeqIncludes(SlotTimesOf(department), time)

\* C13: every patient record and every ledger entry has a department of the
\* catalog and a time that is one of that department's generated slots, and
\* a reservation attempt with any other time ends with an error and without
\* a store write.
C13_RecordsInCatalogSlots ==
    /\ \A id \in DOMAIN patients :
          IsCatalogSlot(PatientDept(patients[id]), PatientTime(patients[id]))
    /\ \A k \in DOMAIN appointments :
          IsCatalogSlot(appointments[k].department, appointments[k].time)
    /\ \A p \in Procs :
          (Done(p) /\ ~IsCatalogSlot(Get(task[p].data, "department"),
                                     Get(task[p].data, "registrationTime")))
             => task[p].err # "" /\ task[p].writes = 0

-----------------------------------------------------------------------------
(* Claims about replies and one-message bookings, checked under Spec *)

\* handler p ends in this step
Ends(p) == task[p].pc # "idle" /\ task'[p].pc = "idle"

\* the step just taken sent the text of this kind to the sender
Sent(sender, kind) == \E i \in 1..Len(outbox') : outbox'[i] = [to |-> sender, kind |-> kind, ok |-> TRUE]

\* the session stored for the sender after the step holds every field of data
\* except the time that was just refused
KeepsCollected(sender, data) ==
    \A f \in DOMAIN data \ {"registrationTime"} :
        /\ f \in DOMAIN registration_states'[sender].data
        /\ registration_states'[sender].data[f] = data[f]

\* C11: when a handler ends after its reservation attempt failed with
\* SlotFull, at the registrationTime step or on the one-shot path, the
\* sender's stored session is at step registrationTime and holds the fields
\* collected so far, and the sender was sent the prompt to choose another
\* time or date.
C11_SlotFullRewindsToTime ==
    [][\A p \in Procs :
          (/\ Ends(p)
           /\ task[p].pc = "attemptDone"
           /\ task[p].caller \in {"oneShot", "stepTime"}
           /\ IsSlotFullError(task[p].err))
             => /\ task[p].sender \in DOMAIN registration_states'
                /\ registration_states'[task[p].sender].step = "registrationTime"
                /\ KeepsCollected(task[p].sender, task[p].state.data)
                /\ Sent(task[p].sender, "chooseOtherTime")]_vars

\* the sessions whose date was written or changed by the step just taken
DateWritten ==
    {s \in DOMAIN registration_states' :
        /\ Has(registration_states'[s].data, "registrationDate")
        /\ \/ s \notin DOMAIN registration_states
           \/ Get(registration_states[s].data, "registrationDate")
                # registration_states'[s].data.registrationDate}

\* C12: every date a step writes into a session, and the date of every
\* patient record a step creates, is strictly later than the current date at
\* that step, whether it was entered at the registrationDate step or read
\* from free text.
C12_AcceptedDatesAreFuture ==
    [][/\ \A s \in DateWritten :
             DayIndex(registration_states'[s].data.registrationDate) > TodayIndex
       /\ \A id \in DOMAIN patients' \ DOMAIN patients :
             DayIndex(PatientDate(patients'[id])) > TodayIndex]_vars

\* messages that name a department, a day and a time, but no phone and no name
PartialBookings == {"book cardiology tomorrow at 10:00"}

\* handler p acts in this step on a message of a sender it found without a
\* session
ActsWithoutSession(p) ==
    /\ task[p].pc = "dispatch" /\ task'[p].pc # "dispatch"
    /\ ~Truthy(task[p].state.step)

\* C14: when a handler found no session and its message gives a department
\* and a date but no phone and no name, the handler ends without a
\* reservation attempt and without a new patient record, and the sender's
\* session is then at step firstName and holds the department and the date.
C14_PartialBookingStartsAtFirstName ==
    [][\A p \in Procs :
          (ActsWithoutSession(p) /\ task[p].text \in PartialBookings)
             => /\ task'[p].pc = "idle"
                /\ patients' = patients
                /\ task[p].sender \in DOMAIN registration_states'
                /\ LET session == registration_states'[task[p].sender]
                   IN  /\ session.step = "firstName"
                       /\ Get(session.data, "department") = "Cardiology"
                       /\ Get(session.data, "registrationDate")
                            = Calendar[TodayIndex + 1]]_vars

\* messages that name a department, a future day, a slot of the department
\* and a phone number
FullBookings == {"book cardiology tomorrow at 10:00 phone 9876543210"}

\* C15: when a handler found no session and its message gives a catalog
\* department, a future date, a slot of the department and a phone number,
\* the handler starts a reservation attempt in the step that acts on the
\* message and sends the sender no question before it.
C15_FullBookingAttemptsAtOnce ==
    [][\A p \in Procs :
          (ActsWithoutSession(p) /\ task[p].text \in FullBookings)
             => /\ task'[p].caller = "oneShot"
                /\ outbox' = NoMessages]_vars

\* the patient record of a finished attempt carries the department, date,
\* time and phone the attempt was given
CarriesValues(r, data) ==
    /\ PatientDept(r) = data.department
    /\ PatientDate(r) = data.registrationDate
    /\ PatientTime(r) = data.registrationTime
    /\ PatientPhone(r) = OrElse(Get(data, "phoneNumber"), "")

HandlingEnds(sender) ==
    \/ \E p \in Procs : Ends(p) /\ task[p].sender = sender
    \/ /\ lastMsg' # lastMsg
       /\ sender \in DOMAIN lastMsg'
       /\ (sender \notin DOMAIN lastMsg \/ lastMsg'[sender] # lastMsg[sender])
       /\ task' = task

\* the step just taken called a send function for this sender
Replied(sender) == \E i \in 1..Len(outbox') : outbox'[i].to = sender

\* C17: whenever the handling of an inbound message ends, the handler has
\* called a send function for the sender of that message. A handler sends
\* only in the step in which it ends, so that step carries every reply of the
\* handling; a call whose fetch was rejected counts as a reply here.
C17_EveryMessageAnswered ==
    [][\A sender \in Senders : HandlingEnds(sender) => Replied(sender)]_vars

-----------------------------------------------------------------------------
(* Claims about the verification handshake, checked under SpecHandshake *)

\* the stored data: sessions, ledger, counters and patient records
Stored == <<registration_states, appointments, counters, patients>>

\* C19: a verification request is answered with status 200 and its own
\* challenge exactly when its mode is subscribe and its token equals the
\* configured secret, and with a non-success status otherwise; the answer
\* depends on the request alone and the step leaves the stored data untouched.
C19_HandshakeAnswersChallenge ==
    [][handshake' # NoHandshake =>
          /\ IF handshake'.mode = "subscribe" /\ handshake'.token = VERIFY_TOKEN
             THEN /\ handshake'.answer.statusCode = 200
                  /\ handshake'.answer.body = handshake'.challenge
             ELSE /\ handshake'.answer.statusCode \notin 200..299
                  /\ handshake'.answer.body \notin Challenges
          /\ UNCHANGED Stored]_vars

\* a verification request with the right mode and token was answered with its
\* challenge while the store held a patient record
C19_Witness ==
    /\ handshake # NoHandshake
    /\ handshake.answer = [statusCode |-> 200, body |-> handshake.challenge]
    /\ DOMAIN patients # {}

\* a verification request with a wrong mode or token was refused while the
\* store held a patient record
C19_WitnessRefused ==
    /\ handshake # NoHandshake
    /\ handshake.answer.statusCode = 403
    /\ handshake.mode = "subscribe"
    /\ DOMAIN patients # {}

-----------------------------------------------------------------------------
(* Claims about the order of the steps, checked under Spec *)

\* the fixed order of the steps of a session
StepOrder ==
    <<"none", "firstName", "lastName", "gender", "address", "email",
      "phoneNumber", "department", "registrationDate", "registrationTime">>

\* the step that follows a step in the order, "none" after the last one
Successor(step) ==
    IF \E i \in 1..(Len(StepOrder) - 1) : StepOrder[i] = step
    THEN StepOrder[(CHOOSE i \in 1..(Len(StepOrder) - 1) : StepOrder[i] = step) + 1]
    ELSE "none"

\* the step the sender's stored session is at after the step taken
storedStepAfter(sender) ==
    IF sender \in DOMAIN registration_states'
    THEN registration_states'[sender].step ELSE "none"

\* C20: whenever the step of a sender's stored session changes, the new step
\* is the successor of the old one in the fixed order or the session was
\* deleted; and when a handler acts on the start phrase of a sender without
\* a session, the session it stores is at step firstName with empty data.
C20_StepsFollowTheOrder ==
    [][/\ \A sender \in Senders :
             storedStepAfter(sender) # storedStep(sender)
                => storedStepAfter(sender) \in {"none", Successor(storedStep(sender))}
       /\ \A p \in Procs :
             (/\ Ends(p)
              /\ task[p].pc = "dispatch"
              /\ task[p].text = "patient registration"
              /\ ~Truthy(task[p].state.step))
                => /\ task[p].sender \in DOMAIN registration_states'
                   /\ registration_states'[task[p].sender].step = "firstName"
                   /\ registration_states'[task[p].sender].data = NoFields]_vars

-----------------------------------------------------------------------------
(* Claims about the booking paths together, checked under SpecForms *)

\* C18: a patient record, once written, stays in the store with the content
\* it was written with: no step of the chat's reservation transaction, of the
\* web form's counter transaction or of the web form's fallback write replaces
\* or changes an existing record.
C18_PatientRecordNeverReplaced ==
    [][\A id \in DOMAIN patients :
          /\ id \in DOMAIN patients'
          /\ patients'[id] = patients[id]]_vars

-----------------------------------------------------------------------------
(* Claims about the ledger, the counter and invalid departments, checked
   under SpecTx *)

\* the sequence a is the beginning of the sequence b
IsPrefix(a, b) == Len(a) <= Len(b) /\ SubSeq(b, 1, Len(a)) = a

\* C28: every ledger entry stays in the ledger; in every step its count does
\* not decrease, its occupant list is extended at the end only, and its
\* department, date, time and capacity keep their values.
C28_LedgerOnlyGrows ==
    [][\A id \in DOMAIN appointments :
          /\ id \in DOMAIN appointments'
          /\ appointments'[id].count >= appointments[id].count
          /\ IsPrefix(appointments[id].patients, appointments'[id].patients)
          /\ appointments'[id].department = appointments[id].department
          /\ appointments'[id].date = appointments[id].date
          /\ appointments'[id].time = appointments[id].time
          /\ appointments'[id].capacity = appointments[id].capacity]_vars

\* a ledger entry has been updated by a second reservation
C28_Witness ==
    \E id \in DOMAIN appointments : Len(appointments[id].patients) >= 2

\* C29: in the step in which a reservation succeeds, the counter document
\* holds the numeric part of the identifier that reservation returns.
C29_CounterEqualsIssuedId ==
    [][returned' # returned =>
          /\ CounterPath \in DOMAIN counters'
          /\ counters'[CounterPath].count
                = NumericPart(returned'[Len(returned')])]_vars

\* the department of the attempt is missing or not in the catalog
BadDepartment(data) ==
    ~Truthy(Get(data, "department")) \/ ~InCatalog(Get(data, "department"))

\* C30: every step of a reservation attempt whose department is missing or
\* not in the catalog leaves the counter, the ledger and the patient records
\* as they were, and the attempt ends with the department error at once.
C30_InvalidDepartmentFailsFast ==
    [][\A p \in Procs :
          (/\ task'[p] # task[p]
           /\ task'[p].caller = "direct"
           /\ BadDepartment(task'[p].data))
             => /\ UNCHANGED <<counters, appointments, patients>>
                /\ task'[p].pc = "attemptDone"
                /\ task'[p].err \in {ErrDeptMissing, ErrInvalidDept}
                /\ task'[p].writes = 0]_vars

\* an attempt with a department outside the catalog and one without a
\* department have failed on a store that holds a patient record
C30_Witness ==
    /\ \E p \in Procs : Done(p) /\ task[p].err = ErrInvalidDept
    /\ \E p \in Procs : Done(p) /\ task[p].err \in {ErrDeptMissing, ErrInvalidDept}
                           /\ ~Truthy(Get(task[p].data, "department"))
    /\ DOMAIN patients # {}

-----------------------------------------------------------------------------
(* Claims about the answers of the steps, checked under Spec *)

\* handler p acts on an answer while the stored session of its sender is the
\* one it read, and the step moves that session to the next step
Answered(p) ==
    LET sender == task[p].sender
    IN  /\ task[p].pc = "dispatch"
        /\ Truthy(task[p].state.step)
        /\ sender \in DOMAIN registration_states
        /\ registration_states[sender].step = task[p].state.step
        /\ registration_states[sender].data = task[p].state.data
        /\ task'[p].pc = "idle"
        /\ sender \in DOMAIN registration_states'
        /\ registration_states'[sender].step = Successor(task[p].state.step)

\* C21: when a handler's valid answer moves the session it read to the next
\* step, the session data differ from the data stored before in the field of
\* the answered step at most: every other field, collected earlier or read
\* from the first message, keeps its value and no other field appears. The
\* data a valid registrationTime answer hands to the reservation differ from
\* the session data in registrationTime at most.
C21_AnswerWritesOwnFieldOnly ==
    [][\A p \in Procs :
          /\ Answered(p) =>
                LET before == registration_states[task[p].sender]
                    after == registration_states'[task[p].sender]
                IN  /\ DOMAIN after.data \subseteq DOMAIN before.data \cup {before.step}
                    /\ \A f \in DOMAIN before.data \ {before.step} :
                          f \in DOMAIN after.data /\ after.data[f] = before.data[f]
          /\ (task[p].pc = "dispatch" /\ task'[p].caller = "stepTime")
                => /\ DOMAIN task'[p].data
                         = DOMAIN task[p].state.data \cup {"registrationTime"}
                   /\ \A f \in DOMAIN task[p].state.data \ {"registrationTime"} :
                         task'[p].data[f] = task[p].state.data[f]]_vars

\* a session that was started with fields read from the first message has
\* moved on by valid answers and still holds those fields
C21_Witness ==
    \E sender \in DOMAIN registration_states :
        /\ registration_states[sender].step = "gender"
        /\ Has(registration_states[sender].data, "department")
        /\ Has(registration_states[sender].data, "registrationDate")
        /\ Has(registration_states[sender].data, "lastName")

\* the fields of a patient record under the names of the steps, whichever
\* variant wrote it
Answers(r) ==
    IF Has(r, "PatientID")
    THEN [firstName |-> r.FirstName, lastName |-> r.LastName, gender |-> r.Gender,
          address |-> r.Address, email |-> r.Email, phoneNumber |-> r.PhoneNumber,
          department |-> r.department, registrationDate |-> r.RegistrationDate,
          registrationTime |-> r.RegistrationTime]
    ELSE [firstName |-> r.firstName, lastName |-> r.lastName, gender |-> r.gender,
          address |-> r.address, email |-> r.email, phoneNumber |-> r.phoneNumber,
          department |-> r.department, registrationDate |-> r.registrationDate,
          registrationTime |-> r.registrationTime]

\* the record holds the valid answers senders give at the nine steps: Asha,
\* - (no last name), 2 (Female), 12 Park Road, a@b.co, 9876543210,
\* cardiology, tomorrow, 10:00
HoldsTheAnswers(r) ==
    LET a == Answers(r)
    IN  /\ a.firstName = "Asha"
        /\ a.lastName \in {"", "-"}
        /\ a.gender \in {"Female", "2"}
        /\ a.address = "12 Park Road"
        /\ a.email = "a@b.co"
        /\ a.phoneNumber = "9876543210"
        /\ a.department = "Cardiology"
        /\ a.registrationDate = "2025-12-02"
        /\ a.registrationTime = "10:00"

\* handler p is at the end of a step-by-step flow of valid answers, each
\* message of which was delivered once
EndsFlow(p) ==
    /\ task[p].caller = "stepTime"
    /\ lastMsg[task[p].sender].redelivered = 0
    /\ Get(task[p].data, "gender") # "xx"

\* the reservation of handler p commits in this step
Commits(p) == task[p].pc = "txCommit" /\ task'[p].pc = "attemptDone"

\* every send call of the step went through
AllDelivered == \A i \in 1..Len(outbox') : outbox'[i].ok

\* the reservation at the end of a flow of valid answers fails only when the
\* slot is full or the store gives up; when it commits, the store gains
\* exactly one patient record, which holds the answers, and the count of the
\* slot grows by one
FlowBooksOnce(p) ==
    /\ (EndsFlow(p) /\ task'[p].pc = "attemptDone")
          => \/ task'[p].err = ""
             \/ IsSlotFullError(task'[p].err)
             \/ task'[p].err = ErrAborted
    /\ (EndsFlow(p) /\ Commits(p))
          => /\ DOMAIN patients' = DOMAIN patients \cup {task'[p].patientId}
             /\ task'[p].patientId \notin DOMAIN patients
             /\ HoldsTheAnswers(patients'[task'[p].patientId])
             /\ appointments'[slotIdOf(task[p].data)].count
                   = currentCountOf(Snap(appointments, slotIdOf(task[p].data))) + 1

-----------------------------------------------------------------------------
(* Claims about the time prompt and the answers of single steps, checked
   under Spec *)

\* the handler p ends by storing a valid answer of the registrationDate step
\* of the session it read
DateAnswered(p) ==
    /\ Answered(p)
    /\ task[p].state.step = "registrationDate"
    /\ InCatalog(Get(task[p].state.data, "department"))

\* the ledger count of a slot: 0 while the slot has no entry
LedgerCount(department, date, time) ==
    currentCountOf(Snap(appointments,
                        slotIdOf([department |-> department,
                                  registrationDate |-> date,
                                  registrationTime |-> time])))

\* the message lists exactly the slots of the department whose ledger count
\* for the date is below the capacity, each with what remains of the capacity
ListsOpenSlots(msg, department, date) ==
    LET times == SlotTimesOf(department)
        capacity == departmentSlots[department].capacity
        open == {time \in Range(times) : LedgerCount(department, date, time) < capacity}
    IN  /\ Has(msg, "buttons")
        /\ {b.title : b \in Range(msg.buttons)} = open
        /\ \A b \in Range(msg.buttons) :
              /\ Has(b, "remaining")
              /\ b.remaining = capacity - LedgerCount(department, date, b.title)

\* C23: when a handler ends by storing a valid answer of the registrationDate
\* step, it has sent the sender a time prompt that lists exactly the slots of
\* the session's department whose ledger count for the chosen date is below
\* the capacity, each with its remaining capacity; a full slot is not listed.
C23_TimePromptListsOpenSlots ==
    [][\A p \in Handlers :
          DateAnswered(p) =>
             \E i \in 1..Len(outbox') :
                /\ outbox'[i].to = task[p].sender
                /\ outbox'[i].kind = "askTime"
                /\ outbox'[i].ok
                /\ ListsOpenSlots(outbox'[i],
                                  task[p].state.data.department,
                                  registration_states'[task[p].sender].data.registrationDate)]_vars


-----------------------------------------------------------------------------
(* Claims about single answers, checked under SpecAnswers *)

\* the text is a number written in digits
IsNumeral(text) == Len(text) > 0 /\ \A i \in 1..Len(text) : IsDigit(Char(text, i))

\* the text is a clock time, H:MM or HH:MM
IsClockTime(text) ==
    LET c == IndexOf(text, ":")
    IN  /\ c \in {2, 3}
        /\ Len(text) = c + 2
        /\ \A i \in (1..Len(text)) \ {c} : IsDigit(Char(text, i))

\* the slot of times that an answer selects: the k-th slot for the menu
\* number k, the slot a clock time names, Undefined for any other answer
SelectedSlot(times, text) ==
    IF IsNumeral(text)
    THEN IF ParseDigits(text) \in 1..Len(times) THEN times[ParseDigits(text)]
         ELSE Undefined
    ELSE IF IsClockTime(text)
            /\ SeqIncludes(times, PadStart2(HourOf(text)) \o ":" \o PadStart2(MinuteOf(text)))
    THEN PadStart2(HourOf(text)) \o ":" \o PadStart2(MinuteOf(text))
    ELSE Undefined

\* the handler p acts on an answer of the registrationTime step of a session
\* with a department of the catalog
TimeAnswered(p) ==
    /\ task[p].pc = "dispatch"
    /\ task'[p].pc # "dispatch"
    /\ task[p].state.step = "registrationTime"
    /\ InCatalog(Get(task[p].state.data, "department"))

\* C24: at the registrationTime step, for every department of the catalog,
\* the menu number k of 1..number of slots stores the k-th generated slot, a
\* clock time that names a generated slot stores that slot, and any other
\* answer stores nothing and is answered with the time prompt again.
C24_TimeAnswerSelectsSlot ==
    [][\A p \in Handlers :
          TimeAnswered(p) =>
             LET slot == SelectedSlot(SlotTimesOf(task[p].state.data.department),
                                      task[p].text)
             IN  IF Truthy(slot)
                 THEN /\ task'[p].pc # "idle"
                      /\ Get(task'[p].data, "registrationTime") = slot
                 ELSE /\ task'[p].pc = "idle"
                      /\ registration_states' = registration_states
                      /\ \E i \in 1..Len(outbox') :
                            /\ outbox'[i].to = task[p].sender
                            /\ outbox'[i].kind = "askTime"]_vars


\* the first step, in step order, whose field the data do not hold
FirstUnfilled(data) ==
    StepNames[Least({i \in 1..Len(StepNames) : ~Truthy(Get(data, StepNames[i]))})]

\* the handler p of a first message ends by storing a session that holds
\* some of the required fields and not all of them
Prefilled(p) ==
    LET sender == task[p].sender
    IN  /\ task[p].pc = "dispatch"
        /\ ~Truthy(task[p].state.step)
        /\ task'[p].pc = "idle"
        /\ sender \in DOMAIN registration_states'
        /\ \E f \in Range(StepNames) : Truthy(Get(registration_states'[sender].data, f))
        /\ \E f \in Range(StepNames) : ~Truthy(Get(registration_states'[sender].data, f))

\* C25: when the handler of a first message stores a session that holds some
\* of the required fields and not all of them, the step of that session is
\* the first step, in step order, whose field is not filled.
C25_FlowStartsAtFirstUnfilled ==
    [][\A p \in Handlers :
          Prefilled(p) =>
             registration_states'[task[p].sender].step
                = FirstUnfilled(registration_states'[task[p].sender].data)]_vars


\* the closed choice set of the gender field
Genders == {"Male", "Female", "Other"}

\* the gender a text names: the menu choice 1, 2 or 3, or the keyword the
\* text contains; Undefined when it names none
NamedGender(text) ==
    LET lower == ToLower(Trim(text))
    IN  IF lower = "1" THEN "Male"
        ELSE IF lower = "2" THEN "Female"
        ELSE IF lower = "3" THEN "Other"
        ELSE IF Includes(lower, "female") THEN "Female"
        ELSE IF Includes(lower, "male") THEN "Male"
        ELSE IF Includes(lower, "other") THEN "Other"
        ELSE Undefined

\* the handler p acts on a first message or on an answer of the gender step
GenderRead(p) ==
    /\ task[p].pc = "dispatch"
    /\ task'[p].pc # "dispatch"
    /\ task[p].state.step \in {Undefined, "gender"}

\* the data the handler p has just stored in the session or handed to the
\* reservation
WrittenData(p) ==
    IF task'[p].pc # "idle" THEN task'[p].data
    ELSE IF task[p].sender \in DOMAIN registration_states'
    THEN registration_states'[task[p].sender].data
    ELSE NoFields

\* C26: when a handler acts on a first message or on an answer of the gender
\* step, a gender it stores is one of Male, Female and Other, it is the value
\* of the keyword the text contains (male, female, other) or of the menu
\* choice (1, 2, 3), and an answer of the gender step that names a gender is
\* stored.
C26_GenderKeywordsKeepTheirValue ==
    [][\A p \in Handlers :
          GenderRead(p) =>
             LET named == NamedGender(task[p].text)
                 data == WrittenData(p)
             IN  /\ Has(data, "gender") => data.gender \in Genders
                 /\ (Truthy(named) /\ Has(data, "gender")) => data.gender = named
                 /\ (Truthy(named) /\ task[p].state.step = "gender")
                       => Has(data, "gender")]_vars


-----------------------------------------------------------------------------
(* Claims about the idle timeout, checked under Spec *)

\* the handler p takes a message of the sender and reads the sender's state
ReadsState(p, sender) ==
    /\ task[p].pc = "idle"
    /\ task'[p].pc \in {"dispatch", "expired"}
    /\ task'[p].sender = sender

\* the sender has a session, and the sender's latest message before this one
\* was taken by a handler no more than the idle limit ago and has been
\* handled to the end
ActiveLately(sender) ==
    /\ sender \in DOMAIN registration_states
    /\ sender \in DOMAIN lastMsg
    /\ now - lastMsg[sender].at <= IdleLimit
    /\ \A q \in Procs : task[q].sender # sender

\* C27: when a handler reads the state of a sender that has a session and
\* whose previous message was handled within the last 30 minutes, the read
\* does not find the session stale and does not discard it.
C27_TimeoutCountsFromLastMessage ==
    [][\A p \in Handlers : \A sender \in Senders :
          (ReadsState(p, sender) /\ ActiveLately(sender))
             => task'[p].pc # "expired"]_vars


-----------------------------------------------------------------------------
(* Claims about the end of reservation attempts under contention, checked
   under FairSpecTx *)

\* the steps of the reservation attempt of p that follow its call
AttemptStep(p) ==
    IdGet(p) \/ IdCommit(p) \/ TxGetSlot(p) \/ TxGetCounter(p) \/ TxCommit(p)

\* direct calls of attemptRegistration where every pending read and commit
\* is answered: the store replies to each request and the event loop runs
\* each continuation
FairSpecTx == SpecTx /\ \A p \in Procs : WF_vars(AttemptStep(p))

\* the attempt of p is running
Running(p) == task[p].pc \notin {"idle", "attemptDone"}

\* every running attempt ends: it commits, fails with SlotFull, or gives up
\* after MaxAttempts lost commits
AttemptsEnd ==
    \A p \in Procs :
        Running(p) ~> (Done(p) /\ (\/ task[p].err = ""
                                   \/ IsSlotFullError(task[p].err)
                                   \/ task[p].err = ErrAborted))

\* an attempt that gave up after lost commits has written nothing
AbortedWritesNothing ==
    \A p \in Procs : (Done(p) /\ task[p].err = ErrAborted) => task[p].writes = 0

\* C31: under contention every reservation attempt ends, with a commit, with
\* SlotFull or with the store's conflict error after a bounded number of
\* retries, and an attempt that ends with the conflict error has written
\* nothing to the counter, the ledger or the patient records.
C31_AttemptsEndAndFailuresWriteNothing ==
    AttemptsEnd /\ []AbortedWritesNothing


-----------------------------------------------------------------------------
(* Claims about corrupted sessions and greetings, checked under SpecAnswers
   and Spec *)

KnownSteps == Range(StepNames)

\* the stored session of the sender has a step that is none of the nine
Corrupted(sender) ==
    /\ sender \in DOMAIN registration_states
    /\ registration_states[sender].step \notin KnownSteps

\* the step just taken called a send function with the restart prompt
RestartPrompted(sender) ==
    \E i \in 1..Len(outbox') :
        outbox'[i].to = sender /\ outbox'[i].kind = "sessionReset"

\* C32 as stated: when the handling of a message ends for a sender whose
\* stored session has a step that is none of the nine, the session is
\* deleted, the restart prompt is sent and no booking was made.
C32_CorruptedSessionIsReset ==
    [][\A sender \in Senders :
          (Corrupted(sender) /\ HandlingEnds(sender))
             => /\ sender \notin DOMAIN registration_states'
                /\ RestartPrompted(sender)
                /\ patients' = patients]_vars

\* the handler p acts on a session it read whose step is none of the nine
ReadCorrupted(p) ==
    /\ task[p].pc = "dispatch"
    /\ task'[p].pc # "dispatch"
    /\ Truthy(task[p].state.step)
    /\ task[p].state.step \notin KnownSteps

\* C32 (amended): when a handler acts on a session it read whose step is
\* none of the nine (the message is not a greeting and the session has not
\* passed the idle limit), it deletes the session, sends the restart prompt
\* and ends without a reservation attempt.
C32_CorruptedSessionIsResetByTheSwitch ==
    [][\A p \in Handlers :
          ReadCorrupted(p)
             => /\ task[p].sender \notin DOMAIN registration_states'
                /\ RestartPrompted(task[p].sender)
                /\ task'[p].pc = "idle"
                /\ patients' = patients]_vars

\* a corrupted session has been reset: the restart prompt went out and the
\* sender has no session
C32_Witness ==
    /\ \E i \in 1..Len(outbox) : outbox[i].kind = "sessionReset"
    /\ registration_states = <<>>
    /\ patients = <<>>


\* the text is a greeting: it holds one of the words hi, hey, hello, hii, hy
IsGreetingText(text) == read[text].trimmed.isGreeting

\* the handler p goes on to read the sender's state for the message it took
GoesOn(p) == task[p].pc = "idle" /\ task'[p].pc # "idle"

\* the step just taken called a send function with the welcome text
Welcomed == \E i \in 1..Len(outbox') : outbox'[i].kind = "welcome"

\* C33: the handler of a greeting ends at once, before the state is read:
\* it sends the welcome text and nothing else, it creates no session and it
\* leaves every stored session as it is, step, data and timestamp.
C33_GreetingLeavesSessionAlone ==
    [][/\ \A p \in Handlers :
             GoesOn(p) => ~IsGreetingText(task'[p].text)
       /\ Welcomed => /\ registration_states' = registration_states
                      /\ task' = task
                      /\ Len(outbox') = 1]_vars


-----------------------------------------------------------------------------
(* Claims about the stored sessions, checked under Spec *)

\* C34: in every reachable state every stored session has one of the nine
\* step names, and a sender that getState reads as step none (no stored
\* record, or a stale one) is read with empty data.
C34_StepNoneHasNoFields ==
    \A sender \in Senders :
        /\ sender \in DOMAIN registration_states
              => registration_states[sender].step \in KnownSteps
        /\ ~Truthy(getState(sender).state.step)
              => getState(sender).state.data = NoFields
        /\ sender \notin DOMAIN registration_states
              => getState(sender).state = EmptyState

\* a session that holds collected fields has gone stale: the next read
\* returns step none
C34_Witness ==
    \E sender \in DOMAIN registration_states :
        /\ registration_states[sender].data # NoFields
        /\ isExpired(registration_states[sender])
        /\ ~Truthy(getState(sender).state.step)


-----------------------------------------------------------------------------
(* Claims about the email step, checked under SpecAnswers *)

\* the handler p acts on an answer of the email step
EmailAnswered(p) ==
    /\ task[p].pc = "dispatch"
    /\ task'[p].pc # "dispatch"
    /\ task[p].state.step = "email"

\* the session of the sender is stored at step phoneNumber with this email
AdvancedWithEmail(sender, email) ==
    /\ sender \in DOMAIN registration_states'
    /\ registration_states'[sender].step = "phoneNumber"
    /\ Get(registration_states'[sender].data, "email") = email

\* C35: at the email step the answer skip, in any letter case, stores an
\* empty email and moves to phoneNumber; any other answer that has the email
\* shape is stored and moves to phoneNumber; every other answer leaves the
\* session as it is and is answered with the email prompt again.
C35_EmailStepAcceptsSkip ==
    [][\A p \in Handlers :
          EmailAnswered(p) =>
             LET sender == task[p].sender
                 text == read[task[p].text].trimmed.text
             IN  IF ToLower(text) = "skip"
                 THEN AdvancedWithEmail(sender, "")
                 ELSE IF read[task[p].text].trimmed.EmailShape
                 THEN AdvancedWithEmail(sender, text)
                 ELSE /\ registration_states' = registration_states
                      /\ \E i \in 1..Len(outbox') :
                            /\ outbox'[i].to = sender
                            /\ outbox'[i].kind = "askEmail"]_vars


-----------------------------------------------------------------------------
(* Claims about the time-slot generators, checked under SpecSlots *)

\* C36: whenever two components have generated the slots of the same window,
\* they hold the same sequence of time points, in the same order.
C36_GeneratorsAgree ==
    \A p, q \in Procs :
        (/\ task[p].pc = "slots" /\ task[q].pc = "slots"
         /\ task[p].data.window = task[q].data.window)
           => task[p].data.slots = task[q].data.slots


-----------------------------------------------------------------------------
(* Claims about the sessions of different senders, checked under SpecChatters *)

\* the handler p works on a message of the sender and takes this step
StepsFor(p, sender) ==
    /\ task[p].sender = sender
    /\ task'[p] # task[p]

\* C37: a step that creates, changes or deletes the stored session of a
\* sender is a step of a handler of a message from that sender; the sessions
\* of all other senders stay as they are.
C37_SessionsDoNotInterfere ==
    [][\A sender \in Chatters :
          Snap(registration_states, sender)' # Snap(registration_states, sender)
             => \E p \in Procs : StepsFor(p, sender)]_vars

\* a handler has written the session of one sender while a message of the
\* other sender, who has a session too, is in handling
C37_Witness ==
    \E a, b \in Chatters :
        /\ a # b
        /\ storedStep(a) \in {"firstName", "address"}
        /\ storedStep(b) # "none"
        /\ \E p \in Procs : task[p].sender = b /\ task[p].pc = "dispatch"


-----------------------------------------------------------------------------
(* Claims about the booking form, checked under SpecBooking *)

\* C38: for every department and date of the form, the number of patient
\* records of that department and date is at most the department's limit.
C38_FormKeepsTheLimit ==
    \A id \in DOMAIN patients :
        (Has(patients[id], "Department") /\ Has(patients[id], "RegistrationDate"))
           => Cardinality(bookedDocs(patients[id].Department,
                                     patients[id].RegistrationDate))
                 <= maxLimit(patients[id].Department)
====
